---- MODULE Spec2Model ----
\* Verification model of the DPU node lifecycle controller of
\* openshift/dpu-network-operator: DpuNodeLifecycleController.Reconcile and
\* the helpers it calls, run against an infra cluster and a tenant cluster
\* whose objects also change under other actors.
EXTENDS Integers, Sequences, FiniteSets, TLC

\* ------------------------------------------------------------------ names

Nodes == {"dpu-1", "dpu-2"}
Hosts == {"worker-1", "worker-2"}

dpuNodeLabel == "node-role.kubernetes.io/dpu-worker"
deploymentPrefix == "dpu-drain-blocker-"
maintenancePrefix == "dpu-tenant-"
deploymentReplicaNumber == 1
maxUnAvailableDefault == 0
RequeueAfterMinutes == 1
MaintenanceReason == "Infra dpu is going to reboot"

\* NodeMaintenance status phases; "" is the phase of a record nobody has
\* processed yet.
MaintenanceSucceeded == "Succeeded"
Phases == {"", "Running", MaintenanceSucceeded, "Failed"}

\* Contents of the mapping file /env/<node>: a tenant host name, an empty
\* TENANT_K8S_NODE, or no file at all.
NoFile == "<no file>"

\* States of the tenant-kubeconfig secret.
SecretStates == {"absent", "noConfigKey", "invalid", "valid"}

VARIABLES
    keys,          \* node names the work queue hands to Reconcile
    nodes,         \* infra cluster: Node objects
    deployments,   \* infra cluster: Deployments of the operator namespace
    pdbs,          \* infra cluster: PodDisruptionBudgets of the operator namespace
    nms,           \* tenant cluster: NodeMaintenance records of the tenant namespace
    mapping,       \* /env/<node> files mounted from the config map
    singleCluster, \* Config.SingleClusterDesign
    restConfig,    \* utils.TenantRestConfig # nil
    secret,        \* the tenant-kubeconfig secret
    tenantClient,  \* r.tenantClient: "nil", "local" or "tenant"
    pc,            \* position of the reconcile of each key
    loc,           \* local variables of the reconcile of each key
    result,        \* what the reconcile of each key returned
    ops,           \* API writes the reconcile of each key has issued so far
    envChanged,    \* another actor wrote to a cluster during the reconcile
    ensured,       \* per key and kind: calls of the get-or-create helper that
                   \* returned without error since another actor last wrote
    \* DpuClusterConfigReconciler and what it works on
    cfgList,       \* DpuClusterConfig objects of the operator namespace
    mcps,          \* MachineConfigPools
    mcs,           \* MachineConfigs
    kubeconfig,    \* the secret named by Spec.KubeConfigFile
    masters,       \* tenant cluster: its control-plane nodes
    syncer,        \* r.syncer: 0 is nil, else the number of the syncer built
    stopCh,        \* r.stopCh: 0 is nil, else the number of the channel made
    chans,         \* channels made so far: number -> "open" or "closed"
    goroutines,    \* goroutines of startTenantSyncer that have not run yet
    started,       \* calls of OvnkubeSyncer.Start: <<syncer, channel>>
    ovn_master_discovery_timeout,
    cpc,           \* position of the DpuClusterConfig reconcile
    cloc,          \* its local variables
    cresult,       \* what it returned
    cops,          \* API writes it has issued so far
    \* the work queue of a resource syncer
    qFailures,     \* rate limiter: failures counted per key (NumRequeues)
    qWaiting,      \* keys added with a delay that has not passed yet
    qQueue,        \* keys ready, in the order Get hands them out
    qDirty,        \* keys added and not handed out since
    qProcessing,   \* keys handed out and not Done
    qWorker,       \* the key processNextWorkItem holds, "" for none
    qLast,         \* what the process function returned last
    \* a resource syncer of the ovnkube syncer
    resourceType,  \* "Secret" or "ConfigMap"
    informerStore, \* r.store: names present in the tenant namespace
    created,       \* r.created
    deleted,       \* r.deleted
    localObjs,     \* names present in the local namespace
    \* one call of the transform function
    tIn,           \* the object handed to it
    tOut           \* what it returned and what was sent to the federator

configObjects == <<cfgList, mcps, mcs, kubeconfig, masters>>
configCtl == <<syncer, stopCh, chans, goroutines, started,
               ovn_master_discovery_timeout, cpc, cloc, cresult, cops>>

queueVars == <<qFailures, qWaiting, qQueue, qDirty, qProcessing, qWorker, qLast>>
syncerVars == <<resourceType, informerStore, created, deleted, localObjs>>
transformVars == <<tIn, tOut>>
syncing == <<queueVars, syncerVars, transformVars>>

\* What the node lifecycle controller never touches.
others == <<configObjects, configCtl, syncing>>

vars == <<keys, nodes, deployments, pdbs, nms, mapping, singleCluster,
          restConfig, secret, tenantClient, pc, loc, result, ops, envChanged,
          ensured, others>>

cluster == <<nodes, deployments, pdbs, nms>>
settings == <<keys, mapping, singleCluster, restConfig, secret>>

\* What the DpuClusterConfig reconciler never touches (it writes
\* utils.TenantRestConfig).
lifecycle == <<cluster, keys, mapping, singleCluster, secret, tenantClient, pc,
               loc, result, ops, envChanged, ensured>>

\* ------------------------------------- DpuClusterConfigReconciler: names

dpuMcRole == "dpu-worker"
OVN_MASTER_DISCOVERY_POLL == 5
OVN_MASTER_DISCOVERY_BACKOFF == 120
InitialDiscoveryTimeout == 250
controlPlaneReplicaCount == 3

\* Local variables of a DpuClusterConfig reconcile: the config it works on,
\* the conditions it has set on it, what the discovery gave.
NoCfg == [name |-> "", poolName |-> "", kubeConfigFile |-> "", mcpReady |-> "unset"]
CLocInit ==
    [cfg |-> NoCfg, mcpReady |-> "unset", timedOut |-> FALSE, used |-> 0,
     masterIPs |-> -1, synced |-> FALSE]
NoCResult == [err |-> FALSE, line |-> 0, panic |-> FALSE]

\* The reconciler as constructed: no syncer, no channel, nothing running.
ConfigCtlInit ==
    /\ syncer = 0
    /\ stopCh = 0
    /\ chans = <<>>
    /\ goroutines = 0
    /\ started = {}
    /\ ovn_master_discovery_timeout = InitialDiscoveryTimeout
    /\ cpc = "idle"
    /\ cloc = CLocInit
    /\ cresult = NoCResult
    /\ cops = {}

\* No DpuClusterConfig and nothing derived from one.
\* ------------------------------------------------ resource syncer: names

SecretNameOvnCert == "ovn-cert"
CmNameOvnCa == "ovn-ca"
CmNameOvnkubeConfig == "ovnkube-config"

Keys == {SecretNameOvnCert, CmNameOvnCa}

NilObj == [name |-> "", namespace |-> "", owners |-> {}]
NoLast == [key |-> "", requeue |-> FALSE, err |-> FALSE, n |-> 0, path |-> ""]
NoIn == [kind |-> "", obj |-> NilObj, op |-> "", convertOk |-> TRUE, setRefOk |-> TRUE]
NoOut == [obj |-> NilObj, requeue |-> FALSE, sent |-> ""]

QueueAtRest ==
    /\ qFailures = [k \in Keys |-> 0]
    /\ qWaiting = {}
    /\ qQueue = <<>>
    /\ qDirty = {}
    /\ qProcessing = {}
    /\ qWorker = ""
    /\ qLast = NoLast

SyncingAtRest ==
    /\ QueueAtRest
    /\ resourceType = "Secret"
    /\ informerStore = {}
    /\ created = {}
    /\ deleted = {}
    /\ localObjs = {}
    /\ tIn = NoIn
    /\ tOut = NoOut

ConfigAtRest ==
    /\ cfgList = {}
    /\ mcps = {}
    /\ mcs = {}
    /\ kubeconfig = "absent"
    /\ masters = [count |-> controlPlaneReplicaCount, withIP |-> TRUE]
    /\ ConfigCtlInit

OthersAtRest == ConfigAtRest /\ SyncingAtRest

\* ------------------------------------------------------------ API server

Has(store, name) == \E o \in store : o.name = name
Obj(store, name) == CHOOSE o \in store : o.name = name

\* Outcomes of client.Get: any call may fail with a transient error.
GetOutcomes(store, name) ==
    {"error"} \cup (IF Has(store, name) THEN {"found"} ELSE {"notfound"})

\* Outcomes of client.Create: names are unique within a kind and namespace.
CreateOutcomes(store, name) ==
    {"error"} \cup (IF Has(store, name) THEN {"alreadyExists"} ELSE {"created"})

\* Outcomes of client.Delete (no preconditions are sent).
DeleteOutcomes(store, name) ==
    {"error"} \cup (IF Has(store, name) THEN {"deleted"} ELSE {"notfound"})

\* Outcomes of client.Update of an object read earlier: optimistic
\* concurrency on resourceVersion.
UpdateOutcomes(store, name, stale) ==
    {"error"} \cup (IF ~Has(store, name) THEN {"notfound"}
                    ELSE IF stale THEN {"conflict"} ELSE {"updated"})

\* ------------------------------------------------------- built objects

\* mutant: the node name is left out of the name
DerivedName_noNode(n) == deploymentPrefix

DerivedName(n) == deploymentPrefix \o n
NmName(tenantNode) == maintenancePrefix \o tenantNode

PDBSpec(mu, sel) == [maxUnavailable |-> mu, selector |-> sel]

\* mutant: the budget is created already open
buildPDB_open(n) ==
    [name |-> DerivedName(n), owner |-> n,
     spec |-> PDBSpec(deploymentReplicaNumber, DerivedName(n))]

buildPDB(n) ==
    [name |-> DerivedName(n), owner |-> n,
     spec |-> PDBSpec(maxUnAvailableDefault, DerivedName(n))]

buildDeployment(n) ==
    [name |-> DerivedName(n), owner |-> n,
     replicas |-> deploymentReplicaNumber, nodeSelector |-> n]

\* mutant: the arguments are swapped, the record targets its own name
buildNodeMaintenanceCR_swapped(name, tenantNodeHostname) ==
    [name |-> name, nodeName |-> name,
     reason |-> MaintenanceReason, phase |-> ""]

\* mutant: the record is built with its status phase filled in
buildNodeMaintenanceCR_phase(name, tenantNodeHostname) ==
    [name |-> name, nodeName |-> tenantNodeHostname,
     reason |-> MaintenanceReason, phase |-> MaintenanceSucceeded]

buildNodeMaintenanceCR(name, tenantNodeHostname) ==
    [name |-> name, nodeName |-> tenantNodeHostname,
     reason |-> MaintenanceReason, phase |-> ""]

\* mutant: the budget is raised whatever the drain outcome
getExpectedMaxUnavailable_always(allowedToDrain) == deploymentReplicaNumber

getExpectedMaxUnavailable(allowedToDrain) ==
    IF allowedToDrain THEN deploymentReplicaNumber ELSE maxUnAvailableDefault

shouldTenantHostBeDrained(unschedulable) == unschedulable = TRUE

\* mutant: any phase the maintenance operator has set counts as drained
wasDrained_anyPhase(phase) == phase \in Phases \ {""}

wasDrained(phase) == phase = MaintenanceSucceeded

\* mutant: an empty TENANT_K8S_NODE is handed back as a host name
GetMatchedTenantNode_noCheck(n) ==
    IF mapping[n] = NoFile THEN [host |-> "", err |-> TRUE]
    ELSE [host |-> mapping[n], err |-> FALSE]

\* GetMatchedTenantNode: the host, or "" with an error.
GetMatchedTenantNode(n) ==
    IF mapping[n] = NoFile THEN [host |-> "", err |-> TRUE]
    ELSE IF mapping[n] = "" THEN [host |-> "", err |-> TRUE]
    ELSE [host |-> mapping[n], err |-> FALSE]

\* ------------------------------------------------------- reconcile state

NoSpec == PDBSpec(-1, "")

\* What the Get of the NodeMaintenance record returned: nothing yet (or an
\* error), not-found, or the phase of the record read.
NotFetched == "<not fetched>"
FetchedNotFound == "<not found>"
Fetched(store, name, o) ==
    CASE o = "found" -> Obj(store, name).phase
      [] o = "notfound" -> FetchedNotFound
      [] OTHER -> NotFetched

LocInit ==
    [tc |-> "nil", tcErr |-> FALSE, nodeGet |-> "", unsched |-> FALSE, tenantNode |-> "",
     pdbAlias |-> FALSE, pdbSpec |-> NoSpec, pdbStale |-> FALSE,
     should |-> FALSE, fetched |-> NotFetched, inState |-> FALSE,
     raced |-> FALSE]

NoResult == [err |-> FALSE, requeueAfter |-> 0, line |-> 0, panic |-> FALSE]
Returned(e, r, l) == [err |-> e, requeueAfter |-> r, line |-> l, panic |-> FALSE]

\* an API write issued by the reconcile: verb, kind, the object sent, what
\* the API server answered and whether it applied the write
Write(verb, kind, name, mu, nodeName, reason, outcome) ==
    [verb |-> verb, kind |-> kind, name |-> name, maxUnavailable |-> mu,
     nodeName |-> nodeName, reason |-> reason, outcome |-> outcome,
     applied |-> outcome \in {"created", "updated", "deleted"}]

Issue(n, w) == ops' = [ops EXCEPT ![n] = @ \cup {w}]

\* return from Reconcile at source line l
Return(n, e, r, l) ==
    /\ pc' = [pc EXCEPT ![n] = "done"]
    /\ result' = [result EXCEPT ![n] = Returned(e, r, l)]

\* a nil r.tenantClient is dereferenced at source line l
Panic(n, l) ==
    /\ pc' = [pc EXCEPT ![n] = "done"]
    /\ result' = [result EXCEPT ![n] =
                    [err |-> TRUE, requeueAfter |-> 0, line |-> l, panic |-> TRUE]]

Goto(n, p) ==
    /\ pc' = [pc EXCEPT ![n] = p]
    /\ UNCHANGED result

\* ------------------------------------------------------------- Reconcile

\* The work queue hands key n to Reconcile (an event on the Node or on an
\* owned object, a requested requeue, or an error retry).
StartReconcile(n) ==
    /\ n \in keys
    /\ pc[n] = "idle"
    /\ Goto(n, "ensureTenantClient")
    /\ UNCHANGED <<others, cluster, settings, tenantClient, loc, ops, envChanged, ensured>>

\* mutant: the secret is read whether or not a REST config is published
getTenantRestClientConfig_secretOnly ==
    {[cfg |-> FALSE, err |-> TRUE]}
    \cup (CASE secret = "absent" -> {[cfg |-> FALSE, err |-> FALSE]}
            [] secret = "noConfigKey" -> {[cfg |-> FALSE, err |-> FALSE]}
            [] secret = "invalid" -> {[cfg |-> FALSE, err |-> TRUE]}
            [] secret = "valid" -> {[cfg |-> TRUE, err |-> FALSE]})

\* getTenantRestClientConfig: (config available, error)
getTenantRestClientConfig ==
    IF restConfig THEN {[cfg |-> TRUE, err |-> FALSE]}
    ELSE {[cfg |-> FALSE, err |-> TRUE]}          \* Get of the secret failed
         \cup (CASE secret = "absent" -> {[cfg |-> FALSE, err |-> FALSE]}
                 [] secret = "noConfigKey" -> {[cfg |-> FALSE, err |-> FALSE]}
                 [] secret = "invalid" -> {[cfg |-> FALSE, err |-> TRUE]}
                 [] secret = "valid" -> {[cfg |-> TRUE, err |-> FALSE]})

\* mutant: the single-cluster toggle is not looked at
ensureTenantClient_noToggle ==
    IF tenantClient # "nil" THEN {[tc |-> tenantClient, err |-> FALSE]}
    ELSE UNION {
        IF c.err THEN {[tc |-> "nil", err |-> TRUE]}
        ELSE IF ~c.cfg THEN {[tc |-> "nil", err |-> FALSE]}
        ELSE {[tc |-> "tenant", err |-> FALSE], [tc |-> "nil", err |-> TRUE]}
        : c \in getTenantRestClientConfig }

\* ensureTenantClient: (client, error), reading the r.tenantClient field
ensureTenantClient ==
    IF tenantClient # "nil" THEN {[tc |-> tenantClient, err |-> FALSE]}
    ELSE IF singleCluster THEN {[tc |-> "local", err |-> FALSE]}
    ELSE UNION {
        IF c.err THEN {[tc |-> "nil", err |-> TRUE]}
        ELSE IF ~c.cfg THEN {[tc |-> "nil", err |-> FALSE]}
        ELSE {[tc |-> "tenant", err |-> FALSE],   \* client.New succeeded
              [tc |-> "nil", err |-> TRUE]}       \* client.New failed
        : c \in getTenantRestClientConfig }

\* Reconcile line 81, right-hand side: the call of ensureTenantClient
EnsureTenantClient(n) ==
    /\ pc[n] = "ensureTenantClient"
    /\ \E r \in ensureTenantClient :
         loc' = [loc EXCEPT ![n].tc = r.tc, ![n].tcErr = r.err]
    /\ Goto(n, "setTenantClient")
    /\ UNCHANGED <<others, cluster, settings, tenantClient, ops, envChanged, ensured>>

\* mutant: only an error stops the reconcile, a nil client does not
NoTenantClient_errOnly(err, tc) == err

\* Reconcile line 83: an error, or no tenant client yet
NoTenantClient(err, tc) == err \/ tc = "nil"

\* Reconcile lines 81-85: the store into r.tenantClient and the early return
SetTenantClient(n) ==
    /\ pc[n] = "setTenantClient"
    /\ tenantClient' = loc[n].tc
    /\ IF NoTenantClient(loc[n].tcErr, loc[n].tc)
          THEN Return(n, loc[n].tcErr, 0, 84)
          ELSE Goto(n, "getNode")
    /\ UNCHANGED <<others, cluster, settings, loc, ops, envChanged, ensured>>

\* mutant: a not-found error is returned like any other
IgnoreNotFound_keep(o) == o # "found"

\* client.IgnoreNotFound applied to the outcome of a call: is an error left?
IgnoreNotFound(o) == o \notin {"found", "notfound"}

\* mutant: every node is taken for a DPU node
hasDpuLabel_any(labels) == TRUE

\* Reconcile line 95: the label lookup
hasDpuLabel(labels) == dpuNodeLabel \in labels

\* Reconcile lines 89-98: fetch the Node, skip nodes without the DPU label
GetNode(n) ==
    /\ pc[n] = "getNode"
    /\ \E o \in GetOutcomes(nodes, n) :
         IF o # "found"
           THEN /\ loc' = [loc EXCEPT ![n].nodeGet = o]
                /\ Return(n, IgnoreNotFound(o), 0, 92)
           ELSE IF ~hasDpuLabel(Obj(nodes, n).labels)
                  THEN /\ loc' = [loc EXCEPT ![n].nodeGet = o]
                       /\ Return(n, FALSE, 0, 97)
                  ELSE /\ loc' = [loc EXCEPT ![n].nodeGet = o,
                                             ![n].unsched = Obj(nodes, n).unschedulable]
                       /\ Goto(n, "resolve")
    /\ UNCHANGED <<others, cluster, settings, tenantClient, ops, envChanged, ensured>>

\* Reconcile lines 100-107: resolve the tenant host
Resolve(n) ==
    /\ pc[n] = "resolve"
    /\ LET r == GetMatchedTenantNode(n) IN
         IF r.err
           THEN Return(n, FALSE, 0, 105) /\ UNCHANGED loc
           ELSE /\ loc' = [loc EXCEPT ![n].tenantNode = r.host]
                /\ Goto(n, "depGet")
    /\ UNCHANGED <<others, cluster, settings, tenantClient, ops, envChanged, ensured>>

\* mutant: any error of the Get is taken for not-found
GetOrCreateAfterGet_anyError(o) ==
    IF o = "found" THEN "return" ELSE "create"

\* mutant: the object is created whether or not the Get found it
GetOrCreateAfterGet_create(o) ==
    IF o \in {"found", "notfound"} THEN "create" ELSE "fail"

\* GetOrCreateObject after its Get: create on not-found, return the object
\* read when there is one, return the error otherwise
GetOrCreateAfterGet(o) ==
    CASE o = "notfound" -> "create"
      [] o = "found" -> "return"
      [] OTHER -> "fail"

\* mutant: a failed Create is logged and the expected object returned
GetOrCreateAfterCreate_swallow(o) == "return"

\* mutant: already-exists is taken as success
GetOrCreateAfterCreate_exists(o) ==
    IF o \in {"created", "alreadyExists"} THEN "return" ELSE "fail"

\* GetOrCreateObject after its Create: any Create error is returned
GetOrCreateAfterCreate(o) ==
    IF o = "created" THEN "return" ELSE "fail"

\* Bookkeeping of consecutive calls of a get-or-create helper for one key
\* and kind: "none" after a failed call or a write of another actor, "once"
\* after a call that returned without error, "again" after the next ones.
\* ran: the same for whole reconciles that ran to line 135 or 138.
NotEnsured == [dep |-> "none", pdb |-> "none", ran |-> "none"]
AfterCall(before, ok) ==
    IF ~ok THEN "none" ELSE IF before = "none" THEN "once" ELSE "again"

\* Reconcile line 109, ensureBlockingDeploymentExists: the Get of GetOrCreateObject
DepGet(n) ==
    /\ pc[n] = "depGet"
    /\ \E o \in GetOutcomes(deployments, DerivedName(n)) :
         LET nx == GetOrCreateAfterGet(o) IN
         CASE nx = "create" -> Goto(n, "depCreate") /\ UNCHANGED ensured
           [] nx = "return" ->
                /\ Goto(n, "pdbGet")
                /\ ensured' = [ensured EXCEPT ![n].dep = AfterCall(@, TRUE)]
           [] nx = "fail" ->
                /\ Return(n, TRUE, 0, 110)
                /\ ensured' = [ensured EXCEPT ![n].dep = AfterCall(@, FALSE)]
    /\ UNCHANGED <<others, cluster, settings, tenantClient, loc, ops, envChanged>>

\* ensureBlockingDeploymentExists: the Create of GetOrCreateObject
DepCreate(n) ==
    /\ pc[n] = "depCreate"
    /\ \E o \in CreateOutcomes(deployments, DerivedName(n)) :
         /\ deployments' = IF o = "created"
                             THEN deployments \cup {buildDeployment(n)}
                             ELSE deployments
         /\ Issue(n, Write("create", "Deployment", DerivedName(n), -1, "", "", o))
         /\ loc' = [loc EXCEPT ![n].raced = (o = "alreadyExists")]
         /\ ensured' = [ensured EXCEPT ![n].dep =
                           AfterCall(@, GetOrCreateAfterCreate(o) = "return")]
         /\ IF GetOrCreateAfterCreate(o) = "return"
               THEN Goto(n, "pdbGet")
               ELSE Return(n, TRUE, 0, 110)
    /\ UNCHANGED <<others, nodes, pdbs, nms, settings, tenantClient, envChanged>>

\* mutant: the node is drained whatever was asked
ensureNodeDrainState_drain(shouldBeDrained) == "drainGet"

\* Reconcile line 122 and the dispatch of ensureNodeDrainState (267-274)
ensureNodeDrainState(shouldBeDrained) ==
    IF shouldBeDrained THEN "drainGet" ELSE "undrainGet"

\* Reconcile lines 115-116, getOrCreatePDB: the Get of GetOrCreateObject
PdbGet(n) ==
    /\ pc[n] = "pdbGet"
    /\ \E o \in GetOutcomes(pdbs, DerivedName(n)) :
         LET nx == GetOrCreateAfterGet(o)
             should == shouldTenantHostBeDrained(loc[n].unsched) IN
         CASE nx = "create" -> Goto(n, "pdbCreate") /\ UNCHANGED <<loc, ensured>>
           [] nx = "return" ->
                /\ loc' = [loc EXCEPT ![n].pdbSpec = Obj(pdbs, DerivedName(n)).spec,
                                      ![n].pdbAlias = FALSE,
                                      ![n].pdbStale = FALSE,
                                      ![n].should = should]
                /\ Goto(n, ensureNodeDrainState(should))
                /\ ensured' = [ensured EXCEPT ![n].pdb = AfterCall(@, TRUE)]
           [] nx = "fail" ->
                /\ Return(n, TRUE, 0, 119) /\ UNCHANGED loc
                /\ ensured' = [ensured EXCEPT ![n].pdb = AfterCall(@, FALSE)]
    /\ UNCHANGED <<others, cluster, settings, tenantClient, ops, envChanged>>

\* getOrCreatePDB: the Create of GetOrCreateObject; the object returned is
\* the expected object itself (obj = expected)
PdbCreate(n) ==
    /\ pc[n] = "pdbCreate"
    /\ \E o \in CreateOutcomes(pdbs, DerivedName(n)) :
         LET should == shouldTenantHostBeDrained(loc[n].unsched) IN
         /\ pdbs' = IF o = "created" THEN pdbs \cup {buildPDB(n)} ELSE pdbs
         /\ Issue(n, Write("create", "PodDisruptionBudget", DerivedName(n),
                           buildPDB(n).spec.maxUnavailable, "", "", o))
         /\ ensured' = [ensured EXCEPT ![n].pdb =
                           AfterCall(@, GetOrCreateAfterCreate(o) = "return")]
         /\ IF GetOrCreateAfterCreate(o) = "return"
               THEN /\ loc' = [loc EXCEPT ![n].pdbSpec = buildPDB(n).spec,
                                          ![n].pdbAlias = TRUE,
                                          ![n].pdbStale = FALSE,
                                          ![n].should = should,
                                          ![n].raced = (o = "alreadyExists")]
                    /\ Goto(n, ensureNodeDrainState(should))
               ELSE /\ loc' = [loc EXCEPT ![n].raced = (o = "alreadyExists")]
                    /\ Return(n, TRUE, 0, 119)
    /\ UNCHANGED <<others, nodes, deployments, nms, settings, tenantClient, envChanged>>

\* drainTenantNode: the Get of GetOrCreateObject through r.tenantClient
DrainGet(n) ==
    /\ pc[n] = "drainGet"
    /\ IF tenantClient = "nil"
         THEN Panic(n, 281) /\ UNCHANGED loc
         ELSE \E o \in GetOutcomes(nms, NmName(loc[n].tenantNode)) :
                LET nx == GetOrCreateAfterGet(o)
                    got == Fetched(nms, NmName(loc[n].tenantNode), o) IN
                CASE nx = "create" ->
                       /\ loc' = [loc EXCEPT ![n].fetched = got]
                       /\ Goto(n, "drainCreate")
                  [] nx = "return" ->
                       /\ loc' = [loc EXCEPT ![n].fetched = got,
                                             ![n].inState = wasDrained(got)]
                       /\ Goto(n, "ensurePDBSpec")
                  [] nx = "fail" -> Return(n, TRUE, 0, 125) /\ UNCHANGED loc
    /\ UNCHANGED <<others, cluster, settings, tenantClient, ops, envChanged, ensured>>

\* drainTenantNode: the Create of GetOrCreateObject, then lines 286-292
DrainCreate(n) ==
    /\ pc[n] = "drainCreate"
    /\ LET nm == buildNodeMaintenanceCR(NmName(loc[n].tenantNode), loc[n].tenantNode) IN
       \E o \in CreateOutcomes(nms, nm.name) :
         /\ nms' = IF o = "created" THEN nms \cup {nm} ELSE nms
         /\ Issue(n, Write("create", "NodeMaintenance", nm.name, -1,
                           nm.nodeName, nm.reason, o))
         /\ IF GetOrCreateAfterCreate(o) = "return"
               THEN /\ loc' = [loc EXCEPT ![n].inState = wasDrained(nm.phase),
                                          ![n].raced = (o = "alreadyExists")]
                    /\ Goto(n, "ensurePDBSpec")
               ELSE /\ loc' = [loc EXCEPT ![n].raced = (o = "alreadyExists")]
                    /\ Return(n, TRUE, 0, 125)
    /\ UNCHANGED <<others, nodes, deployments, pdbs, settings, tenantClient, envChanged, ensured>>

\* mutant: the record found is left in place
UndrainAfterGet_keep(o) ==
    CASE o = "found" -> "return"
      [] o = "notfound" -> "return"
      [] OTHER -> "fail"

\* unDrainTenantNode after its Get (lines 302-307)
UndrainAfterGet(o) ==
    CASE o = "found" -> "delete"
      [] o = "notfound" -> "return"
      [] OTHER -> "fail"

\* mutant: a failed Delete is logged and the step goes on
UndrainAfterDelete_continue(o) == "return"

\* unDrainTenantNode after its Delete (lines 309-316): r.tenantClient.Delete
\* is called directly and any error it reports is returned
UndrainAfterDelete(o) ==
    IF o = "deleted" THEN "return" ELSE "fail"

\* unDrainTenantNode: the Get through r.tenantClient
UndrainGet(n) ==
    /\ pc[n] = "undrainGet"
    /\ IF tenantClient = "nil"
         THEN Panic(n, 302) /\ UNCHANGED loc
         ELSE \E o \in GetOutcomes(nms, NmName(loc[n].tenantNode)) :
                LET nx == UndrainAfterGet(o)
                    got == Fetched(nms, NmName(loc[n].tenantNode), o) IN
                CASE nx = "delete" ->
                       /\ loc' = [loc EXCEPT ![n].fetched = got]
                       /\ Goto(n, "undrainDelete")
                  [] nx = "return" ->
                       /\ loc' = [loc EXCEPT ![n].fetched = got, ![n].inState = TRUE]
                       /\ Goto(n, "ensurePDBSpec")
                  [] nx = "fail" -> Return(n, TRUE, 0, 125) /\ UNCHANGED loc
    /\ UNCHANGED <<others, cluster, settings, tenantClient, ops, envChanged, ensured>>

\* unDrainTenantNode: the Delete through r.tenantClient
UndrainDelete(n) ==
    /\ pc[n] = "undrainDelete"
    /\ IF tenantClient = "nil"
         THEN Panic(n, 309) /\ UNCHANGED <<loc, nms, ops>>
         ELSE LET name == NmName(loc[n].tenantNode) IN
              \E o \in DeleteOutcomes(nms, name) :
                /\ nms' = IF o = "deleted" THEN nms \ {Obj(nms, name)} ELSE nms
                /\ Issue(n, Write("delete", "NodeMaintenance", name, -1, "", "", o))
                /\ IF UndrainAfterDelete(o) = "return"
                      THEN /\ loc' = [loc EXCEPT ![n].inState = TRUE]
                           /\ Goto(n, "ensurePDBSpec")
                      ELSE Return(n, TRUE, 0, 125) /\ UNCHANGED loc
    /\ UNCHANGED <<others, nodes, deployments, pdbs, settings, tenantClient, envChanged, ensured>>

\* The spec held by the pdb object of Reconcile when line 129 compares it:
\* after a create, pdb is the expected object itself, so the store of line
\* 128 into expectedPDB changes pdb too.
SpecOfPdb(l, expectedSpec) ==
    IF l.pdbAlias THEN expectedSpec ELSE l.pdbSpec

\* mutant: the reconcile never asks for a requeue
EndOfReconcile_never(n) == Return(n, FALSE, 0, 138)

\* mutant: every successful reconcile asks for a requeue
EndOfReconcile_requeue(n) == Return(n, FALSE, RequeueAfterMinutes, 135)

\* Reconcile lines 134-138
EndOfReconcile(n) ==
    IF ~loc[n].inState /\ loc[n].should
      THEN Return(n, FALSE, RequeueAfterMinutes, 135)
      ELSE Return(n, FALSE, 0, 138)

\* mutant: the Update sends a freshly built object, without the metadata
\* (owner reference) of the object read
UpdatedPdb_rebuilt(stored, expectedSpec) ==
    [name |-> stored.name, owner |-> "", spec |-> expectedSpec]

\* ensurePDBSpecIsAsExpected lines 177-179: pdb.Spec = expectedPDB.Spec,
\* then Update(pdb): only the spec of the object read changes
UpdatedPdb(stored, expectedSpec) == [stored EXCEPT !.spec = expectedSpec]

\* Reconcile lines 128-138 with ensurePDBSpecIsAsExpected (172-181)
EnsurePDBSpec(n) ==
    /\ pc[n] = "ensurePDBSpec"
    /\ LET mu == getExpectedMaxUnavailable(loc[n].inState /\ loc[n].should)
           expectedSpec == PDBSpec(mu, DerivedName(n))
           name == DerivedName(n) IN
       IF SpecOfPdb(loc[n], expectedSpec) = expectedSpec
         THEN EndOfReconcile(n) /\ UNCHANGED <<pdbs, ops>>
         ELSE \E o \in UpdateOutcomes(pdbs, name, loc[n].pdbStale) :
                /\ pdbs' = IF o = "updated"
                             THEN (pdbs \ {Obj(pdbs, name)})
                                  \cup {UpdatedPdb(Obj(pdbs, name), expectedSpec)}
                             ELSE pdbs
                /\ Issue(n, Write("update", "PodDisruptionBudget", name, mu, "", "", o))
                /\ IF o = "updated"
                      THEN EndOfReconcile(n)
                      ELSE Return(n, TRUE, 0, 130)
    /\ UNCHANGED <<others, nodes, deployments, nms, settings, tenantClient, loc, envChanged, ensured>>

\* Reconcile has returned; the key is back in the work queue's hands.
Finish(n) ==
    /\ pc[n] = "done"
    /\ pc' = [pc EXCEPT ![n] = "idle"]
    /\ loc' = [loc EXCEPT ![n] = LocInit]
    /\ result' = [result EXCEPT ![n] = NoResult]
    /\ ops' = [ops EXCEPT ![n] = {}]
    /\ envChanged' = [envChanged EXCEPT ![n] = FALSE]
    /\ ensured' = [ensured EXCEPT ![n].ran =
                      AfterCall(@, /\ ~result[n].err /\ result[n].line \in {135, 138}
                                   /\ ~envChanged[n])]
    /\ UNCHANGED <<others, cluster, settings, tenantClient>>

\* ------------------------------------------------------------ other actors

\* Tenant hosts the mapping files of the reconciled keys name.
UsedHosts == {mapping[k] : k \in keys} \cap Hosts

\* Every reconcile in flight (or just returned) has seen the clusters change,
\* and what earlier calls ensured no longer stands.
Touch ==
    /\ envChanged' = [k \in Nodes |-> envChanged[k] \/ pc[k] # "idle"]
    /\ ensured' = [k \in Nodes |-> NotEnsured]

\* A reconcile holding a copy of the DisruptionBudget of node n now holds a
\* stale resourceVersion.
HoldsPdb(k) == pc[k] \in {"drainGet", "drainCreate", "undrainGet", "undrainDelete",
                          "ensurePDBSpec"}
StalePdb(n) == loc' = [k \in Nodes |->
                 IF k = n /\ HoldsPdb(k) THEN [loc[k] EXCEPT !.pdbStale = TRUE]
                 ELSE loc[k]]

\* An administrator cordons or uncordons the infra node.
EnvSetUnschedulable(n) ==
    /\ n \in keys /\ Has(nodes, n)
    /\ nodes' = (nodes \ {Obj(nodes, n)})
                 \cup {[Obj(nodes, n) EXCEPT !.unschedulable = ~@]}
    /\ Touch
    /\ UNCHANGED <<others, deployments, pdbs, nms, settings, tenantClient, pc, loc, result, ops>>

\* The DPU role label is put on or taken off the node.
EnvSetLabel(n) ==
    /\ n \in keys /\ Has(nodes, n)
    /\ nodes' = (nodes \ {Obj(nodes, n)})
                 \cup {[Obj(nodes, n) EXCEPT !.labels =
                          IF dpuNodeLabel \in @ THEN @ \ {dpuNodeLabel}
                          ELSE @ \cup {dpuNodeLabel}]}
    /\ Touch
    /\ UNCHANGED <<others, deployments, pdbs, nms, settings, tenantClient, pc, loc, result, ops>>

\* The Node object is deleted, or registers again.
EnvDeleteNode(n) ==
    /\ n \in keys /\ Has(nodes, n)
    /\ nodes' = nodes \ {Obj(nodes, n)}
    /\ Touch
    /\ UNCHANGED <<others, deployments, pdbs, nms, settings, tenantClient, pc, loc, result, ops>>

EnvCreateNode(n) ==
    /\ n \in keys /\ ~Has(nodes, n)
    /\ nodes' = nodes \cup {[name |-> n, labels |-> {dpuNodeLabel}, unschedulable |-> FALSE]}
    /\ Touch
    /\ UNCHANGED <<others, deployments, pdbs, nms, settings, tenantClient, pc, loc, result, ops>>

\* The Deployment is deleted (by hand, or garbage-collected with its owner).
EnvDeleteDeployment(n) ==
    /\ n \in keys /\ Has(deployments, DerivedName(n))
    /\ deployments' = deployments \ {Obj(deployments, DerivedName(n))}
    /\ Touch
    /\ UNCHANGED <<others, nodes, pdbs, nms, settings, tenantClient, pc, loc, result, ops>>

\* Another instance of the operator creates the Deployment.
EnvCreateDeployment(n) ==
    /\ n \in keys /\ ~Has(deployments, DerivedName(n))
    /\ deployments' = deployments \cup {buildDeployment(n)}
    /\ Touch
    /\ UNCHANGED <<others, nodes, pdbs, nms, settings, tenantClient, pc, loc, result, ops>>

\* The DisruptionBudget is deleted (by hand, or garbage-collected).
EnvDeletePDB(n) ==
    /\ n \in keys /\ Has(pdbs, DerivedName(n))
    /\ pdbs' = pdbs \ {Obj(pdbs, DerivedName(n))}
    /\ Touch /\ StalePdb(n)
    /\ UNCHANGED <<others, nodes, deployments, nms, settings, tenantClient, pc, result, ops>>

\* Another instance of the operator creates the DisruptionBudget.
EnvCreatePDB(n) ==
    /\ n \in keys /\ ~Has(pdbs, DerivedName(n))
    /\ pdbs' = pdbs \cup {buildPDB(n)}
    /\ Touch /\ StalePdb(n)
    /\ UNCHANGED <<others, nodes, deployments, nms, settings, tenantClient, pc, result, ops>>

\* The external maintenance operator moves the record to another phase.
EnvSetPhase(h) ==
    /\ h \in UsedHosts /\ Has(nms, NmName(h))
    /\ \E p \in Phases \ {"", Obj(nms, NmName(h)).phase} :
         nms' = (nms \ {Obj(nms, NmName(h))})
                \cup {[Obj(nms, NmName(h)) EXCEPT !.phase = p]}
    /\ Touch
    /\ UNCHANGED <<others, nodes, deployments, pdbs, settings, tenantClient, pc, loc, result, ops>>

\* Another instance of the operator puts the tenant host under maintenance.
EnvCreateNM(h) ==
    /\ h \in UsedHosts /\ ~Has(nms, NmName(h))
    /\ nms' = nms \cup {buildNodeMaintenanceCR(NmName(h), h)}
    /\ Touch
    /\ UNCHANGED <<others, nodes, deployments, pdbs, settings, tenantClient, pc, loc, result, ops>>

\* Another actor deletes the record.
EnvDeleteNM(h) ==
    /\ h \in UsedHosts /\ Has(nms, NmName(h))
    /\ nms' = nms \ {Obj(nms, NmName(h))}
    /\ Touch
    /\ UNCHANGED <<others, nodes, deployments, pdbs, settings, tenantClient, pc, loc, result, ops>>

\* ------------------------------------------------------- the specification

\* Settings the controller is constructed with: the single-cluster toggle,
\* whether a tenant REST config has been published, the kubeconfig secret
\* (read only with the toggle off and no REST config published).
InitSettings ==
    {<<TRUE, FALSE, "absent">>} \cup {<<FALSE, FALSE, s>> : s \in SecretStates}

\* One infra node, dpu-1, freshly registered; nothing derived exists yet.
Init ==
    /\ keys = {"dpu-1"}
    /\ nodes = {[name |-> "dpu-1", labels |-> {dpuNodeLabel}, unschedulable |-> FALSE]}
    /\ deployments = {}
    /\ pdbs = {}
    /\ nms = {}
    /\ \E m \in {"worker-1", "", NoFile} :
         mapping = [n \in Nodes |-> IF n = "dpu-1" THEN m ELSE NoFile]
    /\ \E s \in InitSettings :
         /\ singleCluster = s[1]
         /\ restConfig = s[2]
         /\ secret = s[3]
    /\ tenantClient = "nil"
    /\ pc = [n \in Nodes |-> "idle"]
    /\ loc = [n \in Nodes |-> LocInit]
    /\ result = [n \in Nodes |-> NoResult]
    /\ ops = [n \in Nodes |-> {}]
    /\ envChanged = [n \in Nodes |-> FALSE]
    /\ ensured = [n \in Nodes |-> NotEnsured]
    /\ OthersAtRest

Reconcile(n) ==
    \/ StartReconcile(n)
    \/ EnsureTenantClient(n)
    \/ SetTenantClient(n)
    \/ GetNode(n)
    \/ Resolve(n)
    \/ DepGet(n)
    \/ DepCreate(n)
    \/ PdbGet(n)
    \/ PdbCreate(n)
    \/ DrainGet(n)
    \/ DrainCreate(n)
    \/ UndrainGet(n)
    \/ UndrainDelete(n)
    \/ EnsurePDBSpec(n)
    \/ Finish(n)

Env ==
    \/ \E n \in Nodes :
         \/ EnvSetUnschedulable(n)
         \/ EnvSetLabel(n)
         \/ EnvDeleteNode(n)
         \/ EnvCreateNode(n)
         \/ EnvDeleteDeployment(n)
         \/ EnvCreateDeployment(n)
         \/ EnvDeletePDB(n)
         \/ EnvCreatePDB(n)
    \/ \E h \in Hosts :
         \/ EnvSetPhase(h)
         \/ EnvCreateNM(h)
         \/ EnvDeleteNM(h)

Next == (\E n \in Nodes : Reconcile(n)) \/ Env

Spec == Init /\ [][Next]_vars

\* ------------------------------------------- two DPU nodes, one controller

\* Both infra nodes are DPU nodes of a single-cluster deployment; dpu-2 is
\* mapped to the tenant host of dpu-1 or to a host of its own.
InitTwoNodes ==
    /\ keys = Nodes
    /\ nodes = {[name |-> n, labels |-> {dpuNodeLabel}, unschedulable |-> FALSE] : n \in Nodes}
    /\ deployments = {}
    /\ pdbs = {}
    /\ nms = {}
    /\ \E h \in Hosts :
         mapping = [n \in Nodes |-> IF n = "dpu-1" THEN "worker-1" ELSE h]
    /\ singleCluster = TRUE
    /\ restConfig = FALSE
    /\ secret = "absent"
    /\ tenantClient = "nil"
    /\ pc = [n \in Nodes |-> "idle"]
    /\ loc = [n \in Nodes |-> LocInit]
    /\ result = [n \in Nodes |-> NoResult]
    /\ ops = [n \in Nodes |-> {}]
    /\ envChanged = [n \in Nodes |-> FALSE]
    /\ ensured = [n \in Nodes |-> NotEnsured]
    /\ OthersAtRest

\* The controller is built without MaxConcurrentReconciles: one worker, so
\* a reconcile starts only once every other key is back in the queue.
OneAtATime(n) == \A m \in Nodes \ {n} : pc[m] = "idle"

StartNextReconcile(n) == OneAtATime(n) /\ StartReconcile(n)

NextTwoNodes ==
    \/ \E n \in Nodes :
         \/ StartNextReconcile(n)
         \/ EnsureTenantClient(n)
         \/ SetTenantClient(n)
         \/ GetNode(n)
         \/ Resolve(n)
         \/ DepGet(n)
         \/ DepCreate(n)
         \/ PdbGet(n)
         \/ PdbCreate(n)
         \/ DrainGet(n)
         \/ DrainCreate(n)
         \/ UndrainGet(n)
         \/ UndrainDelete(n)
         \/ EnsurePDBSpec(n)
         \/ Finish(n)
    \/ \E n \in Nodes : EnvSetUnschedulable(n)
    \/ \E h \in Hosts : EnvSetPhase(h)

SpecTwoNodes == InitTwoNodes /\ [][NextTwoNodes]_vars

\* ------------------------------------------------- reconciles in parallel

\* Two DPU nodes mapped to different tenant hosts; the tenant cluster is
\* reached through a valid tenant-kubeconfig secret.
InitParallel ==
    /\ keys = Nodes
    /\ nodes = {[name |-> n, labels |-> {dpuNodeLabel}, unschedulable |-> FALSE] : n \in Nodes}
    /\ deployments = {}
    /\ pdbs = {}
    /\ nms = {}
    /\ mapping = [n \in Nodes |-> IF n = "dpu-1" THEN "worker-1" ELSE "worker-2"]
    /\ singleCluster = FALSE
    /\ restConfig = FALSE
    /\ secret = "valid"
    /\ tenantClient = "nil"
    /\ pc = [n \in Nodes |-> "idle"]
    /\ loc = [n \in Nodes |-> LocInit]
    /\ result = [n \in Nodes |-> NoResult]
    /\ ops = [n \in Nodes |-> {}]
    /\ envChanged = [n \in Nodes |-> FALSE]
    /\ ensured = [n \in Nodes |-> NotEnsured]
    /\ OthersAtRest

\* A pool of workers: the reconciles of different keys interleave step by
\* step, the reconcile of one key is sequential.
NextParallel ==
    \/ \E n \in Nodes : Reconcile(n)
    \/ EnvSetUnschedulable("dpu-1")

SpecParallel == InitParallel /\ [][NextParallel]_vars

\* ------------------------------------- the sources of the tenant client

\* The tenant-kubeconfig secret is created, changed or removed.
EnvSetSecret(s) ==
    /\ s # secret
    /\ secret' = s
    /\ Touch
    /\ UNCHANGED <<others, cluster, keys, mapping, singleCluster, restConfig, tenantClient,
                   pc, loc, result, ops>>

\* The cluster-config controller publishes utils.TenantRestConfig, or sets
\* it to nil when the kubeconfig it read does not parse.
EnvPublishRestConfig ==
    /\ restConfig' = ~restConfig
    /\ Touch
    /\ UNCHANGED <<others, cluster, keys, mapping, singleCluster, secret, tenantClient,
                   pc, loc, result, ops>>

\* One DPU node; the toggle is fixed at start-up, no secret, nothing
\* published yet.
InitClient ==
    /\ keys = {"dpu-1"}
    /\ nodes = {[name |-> "dpu-1", labels |-> {dpuNodeLabel}, unschedulable |-> FALSE]}
    /\ deployments = {}
    /\ pdbs = {}
    /\ nms = {}
    /\ mapping = [n \in Nodes |-> IF n = "dpu-1" THEN "worker-1" ELSE NoFile]
    /\ singleCluster \in BOOLEAN
    /\ restConfig = FALSE
    /\ secret = "absent"
    /\ tenantClient = "nil"
    /\ pc = [n \in Nodes |-> "idle"]
    /\ loc = [n \in Nodes |-> LocInit]
    /\ result = [n \in Nodes |-> NoResult]
    /\ ops = [n \in Nodes |-> {}]
    /\ envChanged = [n \in Nodes |-> FALSE]
    /\ ensured = [n \in Nodes |-> NotEnsured]
    /\ OthersAtRest

NextClient ==
    \/ \E n \in Nodes : Reconcile(n)
    \/ \E n \in Nodes : EnvSetUnschedulable(n)
    \/ \E s \in SecretStates : EnvSetSecret(s)
    \/ EnvPublishRestConfig

SpecClient == InitClient /\ [][NextClient]_vars

\* ------------------------------- the work queue: retries, requeues, events

\* The Node has changed since this reconcile read it: the watch on Nodes
\* (For(&corev1.Node{})) delivers an event for the key.
NodeChanged(n) ==
    /\ loc[n].nodeGet = "found"
    /\ ~Has(nodes, n) \/ Obj(nodes, n).unschedulable # loc[n].unsched

\* What puts the key back into the queue once Reconcile has returned: an
\* error (retry with backoff), a requested requeue, an event on an owned
\* Deployment or DisruptionBudget this reconcile wrote, an event on the Node.
Pending(n) ==
    \/ result[n].err
    \/ result[n].requeueAfter > 0
    \/ \E w \in ops[n] : w.applied /\ w.kind \in {"Deployment", "PodDisruptionBudget"}
    \/ NodeChanged(n)

Requeue(n) == Pending(n) /\ Finish(n)

\* Nothing is pending: the key leaves the queue until an event arrives.
\* The tenant cluster is not watched.
Settle(n) ==
    /\ pc[n] = "done"
    /\ ~Pending(n)
    /\ pc' = [pc EXCEPT ![n] = "settled"]
    /\ UNCHANGED <<others, cluster, settings, tenantClient, loc, result, ops, envChanged, ensured>>

NodeEvent(n) ==
    /\ pc[n] = "settled"
    /\ NodeChanged(n)
    /\ pc' = [pc EXCEPT ![n] = "idle"]
    /\ loc' = [loc EXCEPT ![n] = LocInit]
    /\ result' = [result EXCEPT ![n] = NoResult]
    /\ ops' = [ops EXCEPT ![n] = {}]
    /\ envChanged' = [envChanged EXCEPT ![n] = FALSE]
    /\ UNCHANGED <<others, cluster, settings, tenantClient, ensured>>

\* The steps of Reconcile between its entry and its return.
Steps(n) ==
    \/ EnsureTenantClient(n)
    \/ SetTenantClient(n)
    \/ GetNode(n)
    \/ Resolve(n)
    \/ DepGet(n)
    \/ DepCreate(n)
    \/ PdbGet(n)
    \/ PdbCreate(n)
    \/ DrainGet(n)
    \/ DrainCreate(n)
    \/ UndrainGet(n)
    \/ UndrainDelete(n)
    \/ EnsurePDBSpec(n)

\* One DPU node of a single-cluster deployment, freshly registered.
InitLive ==
    /\ keys = {"dpu-1"}
    /\ nodes = {[name |-> "dpu-1", labels |-> {dpuNodeLabel}, unschedulable |-> FALSE]}
    /\ deployments = {}
    /\ pdbs = {}
    /\ nms = {}
    /\ mapping = [n \in Nodes |-> IF n = "dpu-1" THEN "worker-1" ELSE NoFile]
    /\ singleCluster = TRUE
    /\ restConfig = FALSE
    /\ secret = "absent"
    /\ tenantClient = "nil"
    /\ pc = [n \in Nodes |-> "idle"]
    /\ loc = [n \in Nodes |-> LocInit]
    /\ result = [n \in Nodes |-> NoResult]
    /\ ops = [n \in Nodes |-> {}]
    /\ envChanged = [n \in Nodes |-> FALSE]
    /\ ensured = [n \in Nodes |-> NotEnsured]
    /\ OthersAtRest

NextLive ==
    \/ \E n \in Nodes :
         \/ StartReconcile(n)
         \/ EnsureTenantClient(n)
         \/ SetTenantClient(n)
         \/ GetNode(n)
         \/ Resolve(n)
         \/ DepGet(n)
         \/ DepCreate(n)
         \/ PdbGet(n)
         \/ PdbCreate(n)
         \/ DrainGet(n)
         \/ DrainCreate(n)
         \/ UndrainGet(n)
         \/ UndrainDelete(n)
         \/ EnsurePDBSpec(n)
         \/ Requeue(n)
         \/ Settle(n)
         \/ NodeEvent(n)
         \/ EnvSetUnschedulable(n)
    \/ \E h \in Hosts : EnvSetPhase(h)

\* The queue hands out every key it holds and a started Reconcile runs to
\* its return. Nothing is assumed of the other actors, nor of the outcome
\* of the API calls.
FairLive ==
    \A n \in Nodes :
        /\ WF_vars(StartReconcile(n))
        /\ WF_vars(Requeue(n))
        /\ WF_vars(Settle(n))
        /\ WF_vars(NodeEvent(n))
        /\ WF_vars(Steps(n))

SpecLive == InitLive /\ [][NextLive]_vars /\ FairLive

\* ------------------------------------------- DpuClusterConfigReconciler

ConfigNames == {"cfg-a", "cfg-b"}
PoolNames == {"", "master", "worker", "dpu"}
KubeConfigFiles == {"", "tenant-kc"}

\* At most this many stop channels are made in a run of the model.
MaxChannels == 2

\* What the tenant cluster's control plane is seen as: all three nodes,
\* fewer, none, or nodes one of which has no InternalIP.
MasterStates ==
    {[count |-> 3, withIP |-> TRUE], [count |-> 2, withIP |-> TRUE],
     [count |-> 0, withIP |-> TRUE], [count |-> 2, withIP |-> FALSE]}

CWrite(verb, kind, name, outcome) ==
    [verb |-> verb, kind |-> kind, name |-> name, outcome |-> outcome,
     applied |-> outcome \in {"created", "updated"}]

CGoto(p) == cpc' = p /\ UNCHANGED cresult

\* return from Reconcile at source line l
CReturn(e, l) ==
    /\ cpc' = "done"
    /\ cresult' = [err |-> e, line |-> l, panic |-> FALSE]

\* a run-time panic at source line l ends the process
CPanic(l) ==
    /\ cpc' = "crashed"
    /\ cresult' = [err |-> TRUE, line |-> l, panic |-> TRUE]

\* mutant: no pool name is refused
PoolNotAllowed_none(poolName) == FALSE

\* syncMachineConfigObjs line 764
PoolNotAllowed(poolName) == poolName \in {"master", "worker"}

mcName(poolName) == "00-" \o poolName \o "-bluefield-switchdev"

\* syncMachineConfigObjs lines 768-789: get, create or update the pool.
\* An error of the Get other than not-found is dropped.
SyncPool(poolName) ==
    UNION {
      CASE o = "notfound" ->
             {[err |-> c # "created",
               mcps |-> IF c = "created"
                           THEN mcps \cup {[name |-> poolName, asExpected |-> TRUE]}
                           ELSE mcps,
               writes |-> {CWrite("create", "MachineConfigPool", poolName, c)}]
              : c \in CreateOutcomes(mcps, poolName)}
        [] o = "found" ->
             IF Obj(mcps, poolName).asExpected
                THEN {[err |-> FALSE, mcps |-> mcps, writes |-> {}]}
                ELSE {[err |-> u # "updated",
                       mcps |-> IF u = "updated"
                                   THEN (mcps \ {Obj(mcps, poolName)})
                                        \cup {[name |-> poolName, asExpected |-> TRUE]}
                                   ELSE mcps,
                       writes |-> {CWrite("update", "MachineConfigPool", poolName, u)}]
                      : u \in UpdateOutcomes(mcps, poolName, FALSE)}
        [] OTHER -> {[err |-> FALSE, mcps |-> mcps, writes |-> {}]}
      : o \in GetOutcomes(mcps, poolName) }

\* syncMachineConfigObjs lines 791-832: get, create or update the
\* MachineConfig rendered for the pool.
SyncMachineConfig(poolName) ==
    LET name == mcName(poolName) IN
    UNION {
      CASE o = "notfound" ->
             {[err |-> c # "created",
               mcs |-> IF c = "created"
                          THEN mcs \cup {[name |-> name, asExpected |-> TRUE]}
                          ELSE mcs,
               writes |-> {CWrite("create", "MachineConfig", name, c)}]
              : c \in CreateOutcomes(mcs, name)}
        [] o = "found" ->
             IF Obj(mcs, name).asExpected
                THEN {[err |-> FALSE, mcs |-> mcs, writes |-> {}]}
                ELSE {[err |-> u # "updated",
                       mcs |-> IF u = "updated"
                                  THEN (mcs \ {Obj(mcs, name)})
                                       \cup {[name |-> name, asExpected |-> TRUE]}
                                  ELSE mcs,
                       writes |-> {CWrite("update", "MachineConfig", name, u)}]
                      : u \in UpdateOutcomes(mcs, name, FALSE)}
        [] OTHER -> {[err |-> TRUE, mcs |-> mcs, writes |-> {}]}
      : o \in GetOutcomes(mcs, name) }

\* syncMachineConfigObjs: the outcomes it can have in the current state
syncMachineConfigObjs(poolName) ==
    IF PoolNotAllowed(poolName)
       THEN {[err |-> TRUE, mcps |-> mcps, mcs |-> mcs, writes |-> {}]}
       ELSE UNION {
              IF p.err
                 THEN {[err |-> TRUE, mcps |-> p.mcps, mcs |-> mcs, writes |-> p.writes]}
                 ELSE {[err |-> m.err, mcps |-> p.mcps, mcs |-> m.mcs,
                        writes |-> p.writes \cup m.writes]
                       : m \in SyncMachineConfig(poolName)}
              : p \in SyncPool(poolName) }

\* mutant: a syncer is started whether or not one is recorded
MayStartSyncer_always == TRUE

\* Reconcile line 558
MayStartSyncer == syncer = 0

\* The work queue hands a DpuClusterConfig key to Reconcile.
CfgStartReconcile ==
    /\ cpc = "idle"
    /\ cpc' = "list"
    /\ cloc' = CLocInit
    /\ cresult' = NoCResult
    /\ cops' = {}
    /\ UNCHANGED <<lifecycle, syncing, restConfig, configObjects, syncer, stopCh, chans,
                   goroutines, started, ovn_master_discovery_timeout>>

\* Reconcile lines 525-533 and 586: the List and the three cases of its length
CfgList ==
    /\ cpc = "list"
    /\ \/ CReturn(TRUE, 528) /\ UNCHANGED cloc
       \/ CASE Cardinality(cfgList) > 1 -> CReturn(FALSE, 532) /\ UNCHANGED cloc
            [] Cardinality(cfgList) = 1 ->
                 /\ cloc' = [cloc EXCEPT !.cfg = CHOOSE c \in cfgList : TRUE]
                 /\ CGoto("pool")
            [] OTHER -> CGoto("stop") /\ UNCHANGED cloc
    /\ UNCHANGED <<lifecycle, syncing, restConfig, configObjects, syncer, stopCh, chans,
                   goroutines, started, ovn_master_discovery_timeout, cops>>

\* Reconcile lines 542-558: the pool name, syncMachineConfigObjs, the
\* McpReady condition, the kubeconfig name, the test of r.syncer
CfgSyncMachineConfigObjs ==
    /\ cpc = "pool"
    /\ IF cloc.cfg.poolName = ""
          THEN CReturn(FALSE, 544) /\ UNCHANGED <<cloc, mcps, mcs, cops>>
          ELSE \E out \in syncMachineConfigObjs(cloc.cfg.poolName) :
                 /\ mcps' = out.mcps
                 /\ mcs' = out.mcs
                 /\ cops' = cops \cup out.writes
                 /\ cloc' = [cloc EXCEPT !.mcpReady = IF out.err THEN "False" ELSE "True"]
                 /\ IF out.err THEN CReturn(TRUE, 549)
                    ELSE IF cloc.cfg.kubeConfigFile = "" THEN CReturn(FALSE, 556)
                    ELSE IF MayStartSyncer THEN CGoto("startSyncer")
                    ELSE CGoto("daemonset")
    /\ UNCHANGED <<lifecycle, syncing, restConfig, cfgList, kubeconfig, masters, syncer, stopCh,
                   chans, goroutines, started, ovn_master_discovery_timeout>>
\* startTenantSyncer lines 607-645: what it leaves in utils.TenantRestConfig
\* and in r.syncer ("keep": not assigned, "nil": syncer.New failed, "new"),
\* and its error. With the syncer built the goroutine is started; it
\* assigns the error of Start to the variable line 640 reads, so the error
\* returned is nil or that of Start.
startTenantSyncer ==
    {[restConfig |-> restConfig, syncer |-> "keep", err |-> TRUE]}        \* Get failed
    \cup
    (CASE kubeconfig = "absent" ->
            {[restConfig |-> restConfig, syncer |-> "keep", err |-> TRUE]}
       [] kubeconfig = "noConfigKey" ->
            {[restConfig |-> restConfig, syncer |-> "keep", err |-> TRUE]}
       [] kubeconfig = "invalid" ->
            {[restConfig |-> FALSE, syncer |-> "keep", err |-> TRUE]}
       [] kubeconfig = "valid" ->
            {[restConfig |-> TRUE, syncer |-> "nil", err |-> TRUE],
             [restConfig |-> TRUE, syncer |-> "new", err |-> FALSE],
             [restConfig |-> TRUE, syncer |-> "new", err |-> TRUE]})

\* Reconcile lines 559-570: a new stop channel, startTenantSyncer
CfgStartTenantSyncer ==
    /\ cpc = "startSyncer"
    /\ Len(chans) < MaxChannels
    /\ chans' = Append(chans, "open")
    /\ stopCh' = Len(chans) + 1
    /\ \E s \in startTenantSyncer :
         /\ restConfig' = s.restConfig
         /\ syncer' = CASE s.syncer = "new" -> Len(chans) + 1
                        [] s.syncer = "nil" -> 0
                        [] OTHER -> syncer
         /\ goroutines' = IF s.syncer = "new" THEN goroutines + 1 ELSE goroutines
         /\ IF s.err THEN CReturn(TRUE, 563) ELSE CGoto("daemonset")
    /\ UNCHANGED <<lifecycle, syncing, configObjects, started, ovn_master_discovery_timeout,
                   cloc, cops>>

\* The goroutine of startTenantSyncer line 635 runs: it reads r.syncer and
\* r.stopCh when it runs, not when it was started.
SyncerGoroutine ==
    /\ goroutines > 0
    /\ cpc # "crashed"
    /\ goroutines' = goroutines - 1
    /\ IF syncer = 0
          THEN CPanic(636) /\ UNCHANGED started
          ELSE started' = started \cup {<<syncer, stopCh>>} /\ UNCHANGED <<cpc, cresult>>
    /\ UNCHANGED <<lifecycle, syncing, restConfig, configObjects, syncer, stopCh, chans,
                   ovn_master_discovery_timeout, cloc, cops>>

\* mutant: the timeout is reduced down to and below 0
Backoff_unbounded(timeout) == timeout - OVN_MASTER_DISCOVERY_BACKOFF

\* getTenantClusterMasterIPs lines 874-876
Backoff(timeout) ==
    IF timeout - OVN_MASTER_DISCOVERY_BACKOFF > 0
       THEN timeout - OVN_MASTER_DISCOVERY_BACKOFF
       ELSE timeout

Min(a, b) == IF a < b THEN a ELSE b

\* getTenantClusterMasterIPs lines 881-907: the addresses of the nodes
\* listed, at most controlPlaneReplicaCount of them
Addresses(timeout, timedOut) ==
    IF masters.count > 0 /\ ~masters.withIP
       THEN [ips |-> -1, timeout |-> timeout, err |-> TRUE, timedOut |-> timedOut,
             panic |-> FALSE]
       ELSE [ips |-> Min(masters.count, controlPlaneReplicaCount), timeout |-> timeout,
             err |-> FALSE, timedOut |-> timedOut, panic |-> FALSE]

\* getTenantClusterMasterIPs: (number of addresses, -1 for nil; new
\* timeout; error). The error of client.New is dropped at line 841, so a
\* failed client.New leaves c nil and the first List panics.
getTenantClusterMasterIPs(timeout) ==
    {[ips |-> -1, timeout |-> timeout, err |-> TRUE, timedOut |-> FALSE, panic |-> TRUE],
     [ips |-> -1, timeout |-> timeout, err |-> TRUE, timedOut |-> FALSE, panic |-> FALSE],
     IF masters.count = controlPlaneReplicaCount
        THEN Addresses(timeout, FALSE)
        ELSE Addresses(Backoff(timeout), TRUE)}

\* Reconcile line 571, syncOvnkubeDaemonSet lines 647-738
CfgSyncOvnkubeDaemonSet ==
    /\ cpc = "daemonset"
    /\ \E o \in GetOutcomes(mcps, cloc.cfg.poolName) :
         IF o = "notfound"
            THEN /\ CReturn(TRUE, 574)
                 /\ UNCHANGED <<cloc, ovn_master_discovery_timeout>>
            ELSE \E d \in getTenantClusterMasterIPs(ovn_master_discovery_timeout) :
                   /\ cloc' = [cloc EXCEPT !.used = ovn_master_discovery_timeout,
                                           !.timedOut = d.timedOut,
                                           !.masterIPs = d.ips,
                                           !.synced = ~d.err]
                   /\ IF d.panic
                         THEN CPanic(850) /\ UNCHANGED ovn_master_discovery_timeout
                      ELSE IF d.err
                         THEN CGoto("getDs") /\ UNCHANGED ovn_master_discovery_timeout
                      ELSE /\ ovn_master_discovery_timeout' = d.timeout
                           /\ IF d.ips = 0 THEN CPanic(687)
                              ELSE \/ CReturn(TRUE, 574)
                                   \/ IF o = "found" THEN CGoto("getDs") ELSE CPanic(717)
    /\ UNCHANGED <<lifecycle, syncing, restConfig, configObjects, syncer, stopCh, chans,
                   goroutines, started, cops>>

\* Reconcile lines 576-585: the Get of the DaemonSet ovnkube-node
CfgGetDaemonSet ==
    /\ cpc = "getDs"
    /\ CReturn(TRUE, 579) \/ CReturn(FALSE, 594)
    /\ UNCHANGED <<lifecycle, syncing, restConfig, configObjects, syncer, stopCh, chans,
                   goroutines, started, ovn_master_discovery_timeout, cloc, cops>>

\* mutant: the channel is closed whether or not a syncer is recorded
MayStopSyncer_always == TRUE

\* Reconcile line 587
MayStopSyncer == syncer # 0

\* Reconcile lines 586-594: no DpuClusterConfig is left
CfgStopSyncer ==
    /\ cpc = "stop"
    /\ IF MayStopSyncer
          THEN IF stopCh = 0 \/ chans[stopCh] = "closed"
                  THEN CPanic(589) /\ UNCHANGED <<chans, syncer>>
                  ELSE /\ chans' = [chans EXCEPT ![stopCh] = "closed"]
                       /\ syncer' = 0
                       /\ CReturn(FALSE, 594)
          ELSE CReturn(FALSE, 594) /\ UNCHANGED <<chans, syncer>>
    /\ UNCHANGED <<lifecycle, syncing, restConfig, configObjects, stopCh, goroutines, started,
                   ovn_master_discovery_timeout, cloc, cops>>

\* Reconcile lines 536-540: the deferred update of the status, then the
\* return to the work queue. The update may fail or find the object gone.
CfgFinish ==
    /\ cpc = "done"
    /\ \/ UNCHANGED cfgList
       \/ /\ cloc.cfg # NoCfg /\ Has(cfgList, cloc.cfg.name)
          /\ cfgList' = (cfgList \ {Obj(cfgList, cloc.cfg.name)})
                        \cup {[Obj(cfgList, cloc.cfg.name) EXCEPT !.mcpReady =
                                 IF cloc.mcpReady = "unset" THEN @ ELSE cloc.mcpReady]}
    /\ cpc' = "idle"
    /\ cloc' = CLocInit
    /\ cresult' = NoCResult
    /\ cops' = {}
    /\ UNCHANGED <<lifecycle, syncing, restConfig, mcps, mcs, kubeconfig, masters, syncer, stopCh,
                   chans, goroutines, started, ovn_master_discovery_timeout>>

\* ------------------------------- DpuClusterConfig: the other actors

EnvCreateConfig(name, poolName, kubeConfigFile) ==
    /\ ~Has(cfgList, name)
    /\ cfgList' = cfgList \cup {[name |-> name, poolName |-> poolName,
                                 kubeConfigFile |-> kubeConfigFile, mcpReady |-> "unset"]}
    /\ UNCHANGED <<lifecycle, syncing, restConfig, mcps, mcs, kubeconfig, masters, configCtl>>

EnvDeleteConfig(name) ==
    /\ Has(cfgList, name)
    /\ cfgList' = cfgList \ {Obj(cfgList, name)}
    /\ UNCHANGED <<lifecycle, syncing, restConfig, mcps, mcs, kubeconfig, masters, configCtl>>

\* The secret named by Spec.KubeConfigFile is created, changed or removed.
EnvSetKubeconfig(s) ==
    /\ s # kubeconfig
    /\ kubeconfig' = s
    /\ UNCHANGED <<lifecycle, syncing, restConfig, cfgList, mcps, mcs, masters, configCtl>>

\* Control-plane nodes of the tenant cluster come, go, or get an address.
EnvSetMasters(m) ==
    /\ masters # m
    /\ masters' = m
    /\ UNCHANGED <<lifecycle, syncing, restConfig, cfgList, mcps, mcs, kubeconfig, configCtl>>

\* Another actor edits or removes a MachineConfigPool the operator made.
EnvTouchPool(name) ==
    /\ Has(mcps, name)
    /\ \/ mcps' = (mcps \ {Obj(mcps, name)}) \cup {[name |-> name, asExpected |-> FALSE]}
       \/ mcps' = mcps \ {Obj(mcps, name)}
    /\ mcps' # mcps
    /\ UNCHANGED <<lifecycle, syncing, restConfig, cfgList, mcs, kubeconfig, masters, configCtl>>

\* One or two DpuClusterConfig objects come and go; the node lifecycle
\* controller has no node to work on.
InitConfig ==
    /\ keys = {}
    /\ nodes = {}
    /\ deployments = {}
    /\ pdbs = {}
    /\ nms = {}
    /\ mapping = [n \in Nodes |-> NoFile]
    /\ singleCluster = FALSE
    /\ restConfig = FALSE
    /\ secret = "absent"
    /\ tenantClient = "nil"
    /\ pc = [n \in Nodes |-> "idle"]
    /\ loc = [n \in Nodes |-> LocInit]
    /\ result = [n \in Nodes |-> NoResult]
    /\ ops = [n \in Nodes |-> {}]
    /\ envChanged = [n \in Nodes |-> FALSE]
    /\ ensured = [n \in Nodes |-> NotEnsured]
    /\ OthersAtRest

NextConfig ==
    \/ CfgStartReconcile
    \/ CfgList
    \/ CfgSyncMachineConfigObjs
    \/ CfgStartTenantSyncer
    \/ SyncerGoroutine
    \/ CfgSyncOvnkubeDaemonSet
    \/ CfgGetDaemonSet
    \/ CfgStopSyncer
    \/ CfgFinish
    \/ \E p \in PoolNames, k \in KubeConfigFiles : EnvCreateConfig("cfg-a", p, k)
    \/ EnvCreateConfig("cfg-b", "dpu", "tenant-kc")
    \/ \E c \in ConfigNames : EnvDeleteConfig(c)
    \/ \E s \in SecretStates : EnvSetKubeconfig(s)

SpecConfig == InitConfig /\ [][NextConfig]_vars

\* One DpuClusterConfig with its pool and MachineConfig in place and a valid
\* kubeconfig; the tenant cluster's control plane is what changes.
InitDiscovery ==
    /\ keys = {}
    /\ nodes = {}
    /\ deployments = {}
    /\ pdbs = {}
    /\ nms = {}
    /\ mapping = [n \in Nodes |-> NoFile]
    /\ singleCluster = FALSE
    /\ restConfig = FALSE
    /\ secret = "absent"
    /\ tenantClient = "nil"
    /\ pc = [n \in Nodes |-> "idle"]
    /\ loc = [n \in Nodes |-> LocInit]
    /\ result = [n \in Nodes |-> NoResult]
    /\ ops = [n \in Nodes |-> {}]
    /\ envChanged = [n \in Nodes |-> FALSE]
    /\ ensured = [n \in Nodes |-> NotEnsured]
    /\ cfgList = {[name |-> "cfg-a", poolName |-> "dpu", kubeConfigFile |-> "tenant-kc",
                   mcpReady |-> "unset"]}
    /\ mcps = {[name |-> "dpu", asExpected |-> TRUE]}
    /\ mcs = {[name |-> mcName("dpu"), asExpected |-> TRUE]}
    /\ kubeconfig = "valid"
    /\ masters \in MasterStates
    /\ ConfigCtlInit
    /\ SyncingAtRest

NextDiscovery ==
    \/ CfgStartReconcile
    \/ CfgList
    \/ CfgSyncMachineConfigObjs
    \/ CfgStartTenantSyncer
    \/ SyncerGoroutine
    \/ CfgSyncOvnkubeDaemonSet
    \/ CfgGetDaemonSet
    \/ CfgFinish
    \/ \E m \in MasterStates : EnvSetMasters(m)
    \/ EnvTouchPool("dpu")

SpecDiscovery == InitDiscovery /\ [][NextDiscovery]_vars

\* --------------------------------------- the work queue of a syncer

MaxRequeues == 2

controllers == <<lifecycle, restConfig, configObjects, configCtl>>

\* q.AddRateLimited(key): the rate limiter counts one more failure of the
\* key and the key is added once the delay it answers has passed.
AddRateLimited(k) ==
    /\ qFailures' = [qFailures EXCEPT ![k] = @ + 1]
    /\ qWaiting' = qWaiting \cup {k}

\* q.Forget(key): the rate limiter drops its count of the key.
Forget(k) ==
    /\ qFailures' = [qFailures EXCEPT ![k] = 0]
    /\ UNCHANGED qWaiting

\* the deferred q.Done(key): a key added while it was processed is queued
Done(k) ==
    /\ qProcessing' = qProcessing \ {k}
    /\ qQueue' = IF k \in qDirty THEN Append(qQueue, k) ELSE qQueue
    /\ UNCHANGED qDirty

NumRequeues(k) == qFailures[k]

\* mutant: a key whose processing returned an error is added again
ReAdd_onError(requeue, err) == requeue \/ err

\* processNextWorkItem line 107: if requeue
ReAdd(requeue, err) == requeue

\* queueType.Enqueue
Enqueue(k) ==
    /\ NumRequeues(k) < MaxRequeues
    /\ AddRateLimited(k)
    /\ UNCHANGED <<qQueue, qDirty, qProcessing, qWorker, qLast>>

\* The delay of an added key passes: the key is put in the queue, unless
\* it is there already or is being processed.
QueueDelayPassed(k) ==
    /\ k \in qWaiting
    /\ qWaiting' = qWaiting \ {k}
    /\ qDirty' = qDirty \cup {k}
    /\ qQueue' = IF k \in qDirty \/ k \in qProcessing THEN qQueue ELSE Append(qQueue, k)
    /\ UNCHANGED <<qFailures, qProcessing, qWorker, qLast>>
    /\ UNCHANGED <<controllers, syncerVars, transformVars>>

\* processNextWorkItem lines 81-85: q.Get()
QueueGet ==
    /\ qWorker = ""
    /\ qQueue # <<>>
    /\ qWorker' = Head(qQueue)
    /\ qQueue' = Tail(qQueue)
    /\ qProcessing' = qProcessing \cup {Head(qQueue)}
    /\ qDirty' = qDirty \ {Head(qQueue)}
    /\ UNCHANGED <<qFailures, qWaiting, qLast>>
    /\ UNCHANGED <<controllers, syncerVars, transformVars>>

\* processNextWorkItem lines 92-113 for what process returned: the error
\* is only logged, the key is added again or forgotten, and Done is called.
QueueProcessed(requeue, err, path) ==
    /\ qWorker # ""
    /\ ReAdd(requeue, err) => NumRequeues(qWorker) < MaxRequeues
    /\ IF ReAdd(requeue, err) THEN AddRateLimited(qWorker) ELSE Forget(qWorker)
    /\ Done(qWorker)
    /\ qWorker' = ""
    /\ qLast' = [key |-> qWorker, requeue |-> requeue, err |-> err,
                 n |-> NumRequeues(qWorker), path |-> path]

\* A queue whose process function returns whatever it likes.
QueueEnqueue(k) ==
    /\ Enqueue(k)
    /\ UNCHANGED <<controllers, syncerVars, transformVars>>

QueueProcess(requeue, err) ==
    /\ QueueProcessed(requeue, err, "process")
    /\ UNCHANGED <<controllers, syncerVars, transformVars>>

NodesAtRest ==
    /\ keys = {}
    /\ nodes = {}
    /\ deployments = {}
    /\ pdbs = {}
    /\ nms = {}
    /\ mapping = [n \in Nodes |-> NoFile]
    /\ singleCluster = FALSE
    /\ restConfig = FALSE
    /\ secret = "absent"
    /\ tenantClient = "nil"
    /\ pc = [n \in Nodes |-> "idle"]
    /\ loc = [n \in Nodes |-> LocInit]
    /\ result = [n \in Nodes |-> NoResult]
    /\ ops = [n \in Nodes |-> {}]
    /\ envChanged = [n \in Nodes |-> FALSE]
    /\ ensured = [n \in Nodes |-> NotEnsured]

InitQueue == NodesAtRest /\ OthersAtRest

NextQueue ==
    \/ \E k \in Keys : QueueEnqueue(k)
    \/ \E k \in Keys : QueueDelayPassed(k)
    \/ QueueGet
    \/ \E requeue \in BOOLEAN, err \in BOOLEAN : QueueProcess(requeue, err)

SpecQueue == InitQueue /\ [][NextQueue]_vars

\* ------------------------------- the ovnkube syncer: what it copies

LocalNamespace == "openshift-dpu-network-operator"
TenantNamespace == "tenant-ns"
Owner == "cfg-a"

ObjectNames == {SecretNameOvnCert, CmNameOvnCa, CmNameOvnkubeConfig, "other"}

\* ctrl.SetControllerReference(s.owner, obj, s.scheme) on an object
\* without owner references
ControllerRef == [kind |-> "DpuClusterConfig", name |-> Owner, controller |-> TRUE]

\* owner references an object of the tenant cluster may carry
OwnerRefs ==
    {{}, {[kind |-> "Deployment", name |-> "ovnkube-master", controller |-> TRUE]},
     {[kind |-> "Deployment", name |-> "ovnkube-master", controller |-> TRUE],
      [kind |-> "Network", name |-> "cluster", controller |-> FALSE]}}

\* OvnkubeSyncer.shouldSyncSecret; setRefOk: SetControllerReference
\* returned no error
shouldSyncSecret(obj, setRefOk) ==
    LET sec == [obj EXCEPT !.namespace = LocalNamespace] IN
    IF sec.name = SecretNameOvnCert /\ setRefOk
       THEN [obj |-> [sec EXCEPT !.owners = {ControllerRef}], requeue |-> FALSE]
       ELSE [obj |-> NilObj, requeue |-> FALSE]

\* mutant: every config map is copied
shouldSyncConfigMap_any(obj, setRefOk) ==
    LET cm == [obj EXCEPT !.namespace = LocalNamespace] IN
    IF setRefOk
       THEN [obj |-> [cm EXCEPT !.owners = {ControllerRef}], requeue |-> FALSE]
       ELSE [obj |-> NilObj, requeue |-> FALSE]

\* OvnkubeSyncer.shouldSyncConfigMap
shouldSyncConfigMap(obj, setRefOk) ==
    LET cm == [obj EXCEPT !.namespace = LocalNamespace] IN
    IF cm.name \in {CmNameOvnCa, CmNameOvnkubeConfig} /\ setRefOk
       THEN [obj |-> [cm EXCEPT !.owners = {ControllerRef}], requeue |-> FALSE]
       ELSE [obj |-> NilObj, requeue |-> FALSE]

\* resourceSyncer.transform with config.Transform set by
\* OvnkubeSyncer.Start: the conversion to the typed object, the transform
\* function of the resource type
transform(kind, obj, convertOk, setRefOk) ==
    IF ~convertOk THEN [obj |-> NilObj, requeue |-> FALSE]
    ELSE IF kind = "Secret" THEN shouldSyncSecret(obj, setRefOk)
    ELSE shouldSyncConfigMap(obj, setRefOk)

TransformInputs ==
    [kind : {"Secret", "ConfigMap"},
     obj : [name : ObjectNames, namespace : {TenantNamespace}, owners : OwnerRefs],
     op : {"Create", "Update", "Delete"},
     convertOk : BOOLEAN,
     setRefOk : BOOLEAN]

\* processNextWorkItem lines 412-441 and handleDeleted lines 463-489: the
\* transform, and the call of the federator with what it returned
ApplyTransform ==
    /\ tIn # NoIn
    /\ tOut = NoOut
    /\ LET r == transform(tIn.kind, tIn.obj, tIn.convertOk, tIn.setRefOk) IN
         tOut' = [obj |-> r.obj, requeue |-> r.requeue,
                  sent |-> IF r.obj = NilObj THEN "nothing"
                           ELSE IF tIn.op = "Delete" THEN "Delete"
                           ELSE "Distribute"]
    /\ UNCHANGED <<controllers, queueVars, syncerVars, tIn>>

\* the next object of the tenant namespace comes up for processing
NextObject ==
    /\ tIn = NoIn \/ tOut # NoOut
    /\ tIn' \in TransformInputs
    /\ tOut' = NoOut
    /\ UNCHANGED <<controllers, queueVars, syncerVars>>

InitTransform == NodesAtRest /\ OthersAtRest

NextTransform == ApplyTransform \/ NextObject

SpecTransform == InitTransform /\ [][NextTransform]_vars

\* ------------------------------------------------- the resource syncer

\* the object of the tenant namespace a key stands for
TenantObject(k) == [name |-> k, namespace |-> TenantNamespace, owners |-> {}]

\* mutant: a deletion that failed is not put back in r.deleted
handleDeleted_forgets(k) ==
    IF k \notin deleted
       THEN {[requeue |-> FALSE, err |-> FALSE, deleted |-> deleted,
              localObjs |-> localObjs, path |-> "notInCache"]}
       ELSE UNION {
              LET r == transform(resourceType, TenantObject(k), c, o) IN
              IF r.obj = NilObj
                 THEN {[requeue |-> r.requeue, err |-> FALSE,
                        deleted |-> IF r.requeue THEN deleted ELSE deleted \ {k},
                        localObjs |-> localObjs, path |-> "notSynced"]}
                 ELSE {[requeue |-> TRUE, err |-> TRUE, deleted |-> deleted \ {k},
                        localObjs |-> localObjs, path |-> "deleteFailed"],
                       IF k \in localObjs
                          THEN [requeue |-> r.requeue, err |-> FALSE,
                                deleted |-> IF r.requeue THEN deleted ELSE deleted \ {k},
                                localObjs |-> localObjs \ {k}, path |-> "deleted"]
                          ELSE [requeue |-> FALSE, err |-> FALSE, deleted |-> deleted \ {k},
                                localObjs |-> localObjs, path |-> "deleteNotFound"]}
              : c \in BOOLEAN, o \in BOOLEAN }

\* resourceSyncer.handleDeleted: what it returns and leaves in r.deleted
\* and in the local namespace. Federator.Delete deletes the object,
\* answers not-found when it is not there, or fails.
handleDeleted(k) ==
    IF k \notin deleted
       THEN {[requeue |-> FALSE, err |-> FALSE, deleted |-> deleted,
              localObjs |-> localObjs, path |-> "notInCache"]}
       ELSE UNION {
              LET r == transform(resourceType, TenantObject(k), c, o) IN
              IF r.obj = NilObj
                 THEN {[requeue |-> r.requeue, err |-> FALSE,
                        deleted |-> IF r.requeue THEN deleted ELSE deleted \ {k},
                        localObjs |-> localObjs, path |-> "notSynced"]}
                 ELSE {[requeue |-> TRUE, err |-> TRUE, deleted |-> deleted,
                        localObjs |-> localObjs, path |-> "deleteFailed"],
                       IF k \in localObjs
                          THEN [requeue |-> r.requeue, err |-> FALSE,
                                deleted |-> IF r.requeue THEN deleted ELSE deleted \ {k},
                                localObjs |-> localObjs \ {k}, path |-> "deleted"]
                          ELSE [requeue |-> FALSE, err |-> FALSE, deleted |-> deleted \ {k},
                                localObjs |-> localObjs, path |-> "deleteNotFound"]}
              : c \in BOOLEAN, o \in BOOLEAN }

\* resourceSyncer.processNextWorkItem: what it returns and leaves in
\* r.created, r.deleted and the local namespace. shouldSync is true for
\* the direction None of the ovnkube syncer.
processNextWorkItem(k) ==
    {[requeue |-> TRUE, err |-> TRUE, created |-> created, deleted |-> deleted,
      localObjs |-> localObjs, path |-> "storeError"]}
    \cup
    IF k \notin informerStore
       THEN {[requeue |-> d.requeue, err |-> d.err, created |-> created,
              deleted |-> d.deleted, localObjs |-> d.localObjs, path |-> d.path]
             : d \in handleDeleted(k)}
       ELSE UNION {
              LET r == transform(resourceType, TenantObject(k), c, o) IN
              IF r.obj = NilObj
                 THEN {[requeue |-> r.requeue, err |-> FALSE,
                        created |-> IF r.requeue THEN created ELSE created \ {k},
                        deleted |-> deleted, localObjs |-> localObjs,
                        path |-> "notSynced"]}
                 ELSE {[requeue |-> TRUE, err |-> TRUE, created |-> created,
                        deleted |-> deleted, localObjs |-> localObjs,
                        path |-> "distributeFailed"],
                       [requeue |-> r.requeue, err |-> FALSE,
                        created |-> IF r.requeue THEN created ELSE created \ {k},
                        deleted |-> deleted, localObjs |-> localObjs \cup {k},
                        path |-> "distributed"]}
              : c \in BOOLEAN, o \in BOOLEAN }

\* the worker of the syncer's queue processes the key it holds
SyncerProcess ==
    /\ qWorker # ""
    /\ \E o \in processNextWorkItem(qWorker) :
         /\ QueueProcessed(o.requeue, o.err, o.path)
         /\ created' = o.created
         /\ deleted' = o.deleted
         /\ localObjs' = o.localObjs
    /\ UNCHANGED <<controllers, resourceType, informerStore, transformVars>>

\* resourceSyncer.onCreate, after the informer put the object in its store
onCreate(k) ==
    /\ k \notin informerStore
    /\ informerStore' = informerStore \cup {k}
    /\ created' = created \cup {k}
    /\ Enqueue(k)
    /\ UNCHANGED <<controllers, resourceType, deleted, localObjs, transformVars>>

\* resourceSyncer.onUpdate for objects that are not equivalent
onUpdate(k) ==
    /\ k \in informerStore
    /\ Enqueue(k)
    /\ UNCHANGED <<controllers, syncerVars, transformVars>>

\* resourceSyncer.onDelete, after the informer took the object off its store
onDelete(k) ==
    /\ k \in informerStore
    /\ informerStore' = informerStore \ {k}
    /\ deleted' = deleted \cup {k}
    /\ Enqueue(k)
    /\ UNCHANGED <<controllers, resourceType, created, localObjs, transformVars>>

\* another actor deletes the copy in the local namespace
EnvDeleteLocalObject(k) ==
    /\ k \in localObjs
    /\ localObjs' = localObjs \ {k}
    /\ UNCHANGED <<controllers, queueVars, resourceType, informerStore, created,
                   deleted, transformVars>>

InitSyncer ==
    /\ NodesAtRest
    /\ ConfigAtRest
    /\ QueueAtRest
    /\ resourceType \in {"Secret", "ConfigMap"}
    /\ informerStore = {}
    /\ created = {}
    /\ deleted = {}
    /\ localObjs = {}
    /\ tIn = NoIn
    /\ tOut = NoOut

NextSyncer ==
    \/ \E k \in Keys : onCreate(k)
    \/ \E k \in Keys : onUpdate(k)
    \/ \E k \in Keys : onDelete(k)
    \/ \E k \in Keys : QueueDelayPassed(k)
    \/ QueueGet
    \/ SyncerProcess
    \/ \E k \in Keys : EnvDeleteLocalObject(k)

SpecSyncer == InitSyncer /\ [][NextSyncer]_vars

\* ================================================================= claims

PdbWrites(n) == {w \in ops[n] : w.kind = "PodDisruptionBudget"}
NmWrites(n) == {w \in ops[n] : w.kind = "NodeMaintenance"}

\* Reconcile ran to its last statements and returned without error.
RanToEnd(n) == pc[n] = "done" /\ ~result[n].err /\ result[n].line \in {135, 138}

\* The drain or undrain step has returned without error.
DrainStepReturned(n) ==
    \/ pc[n] = "ensurePDBSpec"
    \/ pc[n] = "done" /\ result[n].line \in {130, 135, 138}

StoredBudget(n) == Obj(pdbs, DerivedName(n)).spec.maxUnavailable

\* C1: every DisruptionBudget write of a reconcile carries maxUnavailable 0
\* or 1, and carries 1 only if that reconcile read the node as unschedulable
\* and its drain step fetched the record with phase Succeeded.
C1_BudgetOneOnlyAfterConfirmedDrain ==
    \A n \in Nodes : \A w \in PdbWrites(n) :
        /\ w.maxUnavailable \in {0, 1}
        /\ w.maxUnavailable = 1 =>
              /\ loc[n].unsched /\ loc[n].should
              /\ loc[n].inState /\ loc[n].fetched = MaintenanceSucceeded

C1_Witness ==
    \E n \in Nodes : \E w \in PdbWrites(n) :
        w.verb = "update" /\ w.applied /\ w.maxUnavailable = 1

\* C2 as claimed: in every reachable state the stored budget is 1 only if
\* the record exists with phase Succeeded and the node is unschedulable.
C2_Claimed ==
    \A n \in keys :
        (Has(pdbs, DerivedName(n)) /\ StoredBudget(n) = 1) =>
            /\ mapping[n] \in Hosts
            /\ Has(nms, NmName(mapping[n]))
            /\ Obj(nms, NmName(mapping[n])).phase = MaintenanceSucceeded
            /\ Has(nodes, n) /\ Obj(nodes, n).unschedulable

\* C2 as amended: right after a reconcile that ran to its end without error
\* and during which no other actor changed the clusters, the stored budget
\* is 0 or 1, and 1 only if the record exists with phase Succeeded and the
\* node is unschedulable.
C2_BudgetOneOnlyWhenDrainedAtReturn ==
    \A n \in keys :
        (RanToEnd(n) /\ ~envChanged[n]) =>
            /\ Has(pdbs, DerivedName(n))
            /\ StoredBudget(n) \in {0, 1}
            /\ StoredBudget(n) = 1 =>
                  /\ Has(nms, NmName(mapping[n]))
                  /\ Obj(nms, NmName(mapping[n])).phase = MaintenanceSucceeded
                  /\ Has(nodes, n) /\ Obj(nodes, n).unschedulable

C2_Witness ==
    \E n \in keys :
        /\ RanToEnd(n) /\ ~envChanged[n]
        /\ Has(pdbs, DerivedName(n)) /\ StoredBudget(n) = 1

\* C3: after a reconcile that ran to its end without error (no other actor
\* having changed the clusters meanwhile), the stored budget is 1 if the
\* reconcile computed actuallyDrained and desiredDrained, and 0 otherwise,
\* whether the budget existed or was created in this reconcile.
C3_Claimed ==
    \A n \in keys :
        (RanToEnd(n) /\ ~envChanged[n]) =>
            /\ Has(pdbs, DerivedName(n))
            /\ StoredBudget(n) = IF loc[n].inState /\ loc[n].should THEN 1 ELSE 0

\* C4: when the reconcile is about to create the NodeMaintenance record, or
\* has issued that create, the Deployment and the DisruptionBudget exist,
\* unless another actor changed the clusters during this reconcile.
C4_BlockerBeforeRemoteDrain ==
    \A n \in keys :
        ((pc[n] = "drainCreate" \/ \E w \in NmWrites(n) : w.verb = "create")
           /\ ~envChanged[n]) =>
            /\ Has(deployments, DerivedName(n))
            /\ Has(pdbs, DerivedName(n))

C4_Witness ==
    \E n \in keys :
        /\ \E w \in NmWrites(n) : w.verb = "create" /\ w.applied
        /\ \E w \in ops[n] : w.verb = "create" /\ w.kind = "Deployment" /\ w.applied
        /\ \E w \in PdbWrites(n) : w.verb = "create" /\ w.applied
        /\ ~envChanged[n]

\* C5: a reconcile that returns without error asks for a requeue after one
\* minute if and only if it computed desiredDrained and not actuallyDrained;
\* every other successful return asks for no requeue.
C5_RequeueIffDrainPending ==
    \A n \in Nodes :
        (pc[n] = "done" /\ ~result[n].err) =>
            /\ result[n].requeueAfter \in {0, RequeueAfterMinutes}
            /\ result[n].requeueAfter = RequeueAfterMinutes
                  <=> (loc[n].should /\ ~loc[n].inState)
            /\ result[n].line \in {84, 92, 97, 105} => result[n].requeueAfter = 0

C5_Witness ==
    \E n \in Nodes :
        /\ pc[n] = "done" /\ ~result[n].err
        /\ result[n].requeueAfter = RequeueAfterMinutes
        /\ loc[n].fetched = "Running"

\* C6: with the node read as schedulable, once the Get (and the Delete, if
\* any) of the undrain step succeeded the step has returned true, whatever
\* the record was, and the reconcile asks for no requeue.
C6_UndrainNeverWaits ==
    \A n \in Nodes :
        (DrainStepReturned(n) /\ ~loc[n].should) =>
            /\ loc[n].inState
            /\ result[n].requeueAfter = 0

C6_Witness ==
    \E n \in Nodes :
        /\ RanToEnd(n) /\ ~loc[n].should
        /\ loc[n].fetched = "Running"
        /\ \E w \in NmWrites(n) : w.verb = "delete" /\ w.applied

\* C7: on the drain path a create of the record is issued if and only if
\* the Get reported not-found, it is the only write issued on the record,
\* and it carries the name, the target node and the fixed reason; when the
\* Get found a record, in any phase, no write is issued on it.
C7_DrainCreatesIffAbsent ==
    \A n \in Nodes :
        loc[n].should =>
            /\ loc[n].fetched \in Phases => NmWrites(n) = {}
            /\ loc[n].fetched = NotFetched => NmWrites(n) = {}
            /\ (loc[n].fetched = FetchedNotFound /\ pc[n] # "drainCreate") =>
                  \E o \in {"created", "alreadyExists", "error"} :
                     NmWrites(n) = {Write("create", "NodeMaintenance",
                                          maintenancePrefix \o loc[n].tenantNode, -1,
                                          loc[n].tenantNode,
                                          "Infra dpu is going to reboot", o)}
            /\ \A w \in NmWrites(n) : (w.applied /\ ~envChanged[n]) =>
                  \E r \in nms : /\ r.name = w.name
                                  /\ r.nodeName = loc[n].tenantNode
                                  /\ r.reason = w.reason
                                  /\ r.phase = ""

C7_Witness ==
    \E n \in Nodes :
        /\ loc[n].should /\ loc[n].fetched = FetchedNotFound
        /\ \E w \in NmWrites(n) : w.verb = "create" /\ w.applied

\* C8: once the drain step has returned without error, actuallyDrained is
\* true if and only if the record was found by the Get with phase Succeeded;
\* a record created by this call yields false.
C8_DrainedIffFetchedSucceeded ==
    \A n \in Nodes :
        (DrainStepReturned(n) /\ loc[n].should) =>
            /\ loc[n].inState <=> loc[n].fetched = MaintenanceSucceeded
            /\ (\E w \in NmWrites(n) : w.verb = "create") => ~loc[n].inState
            /\ loc[n].fetched \in {"", "Running", "Failed"} => ~loc[n].inState

C8_Witness ==
    \E n \in Nodes :
        /\ DrainStepReturned(n) /\ loc[n].should
        /\ loc[n].inState /\ loc[n].fetched = MaintenanceSucceeded

\* C9: on the undrain path a delete is issued if and only if the Get found
\* the record, nothing is written when it is absent, no create is ever
\* issued, and when the step has returned (no other actor interfering) the
\* record is absent.
C9_UndrainDeletesIffPresent ==
    \A n \in Nodes :
        (~loc[n].should /\ pc[n] \in {"undrainGet", "undrainDelete", "ensurePDBSpec", "done"}) =>
            /\ \A w \in NmWrites(n) : w.verb = "delete"
            /\ loc[n].fetched \in {NotFetched, FetchedNotFound} => NmWrites(n) = {}
            /\ (loc[n].fetched \in Phases /\ pc[n] # "undrainDelete") =>
                  \E w \in NmWrites(n) :
                     w.verb = "delete" /\ w.name = NmName(loc[n].tenantNode)
            /\ (DrainStepReturned(n) /\ ~envChanged[n]) =>
                  ~Has(nms, NmName(loc[n].tenantNode))

C9_Witness ==
    \E n \in Nodes :
        /\ DrainStepReturned(n) /\ ~loc[n].should /\ ~envChanged[n]
        /\ loc[n].fetched = MaintenanceSucceeded
        /\ \E w \in NmWrites(n) : w.verb = "delete" /\ w.applied

\* C10 as claimed: a reconcile whose Create found the object created by
\* another actor since its Get does not return an error.
C10_Claimed ==
    \A n \in Nodes : (loc[n].raced /\ pc[n] = "done") => ~result[n].err

\* C10 as amended: when the object is created by another actor between the
\* Get and the Create of GetOrCreateObject, the Create fails with
\* already-exists and is not applied, and the reconcile returns that error
\* from the step it was in, with no requeue; no later step runs, so the
\* reconcile issues no update and no delete and no write on a later object.
C10_RaceReturnsAlreadyExists ==
    \A n \in Nodes :
        loc[n].raced =>
            /\ pc[n] = "done"
            /\ result[n].err /\ ~result[n].panic
            /\ result[n].requeueAfter = 0
            /\ result[n].line \in {110, 119, 125}
            /\ \A w \in ops[n] : w.verb = "create"
            /\ result[n].line = 110 =>
                  /\ PdbWrites(n) = {} /\ NmWrites(n) = {}
                  /\ \A w \in ops[n] : ~w.applied
            /\ result[n].line = 119 =>
                  /\ NmWrites(n) = {}
                  /\ PdbWrites(n) # {} /\ \A w \in PdbWrites(n) : ~w.applied
            /\ result[n].line = 125 =>
                  NmWrites(n) # {} /\ \A w \in NmWrites(n) : ~w.applied

C10_Witness ==
    \E n \in Nodes :
        /\ loc[n].raced /\ pc[n] = "done" /\ result[n].line = 125
        /\ Has(nms, NmName(loc[n].tenantNode))

\* C11: on the undrain path a record that is not found counts as success,
\* whether it is absent at the Get or gone by the time of the Delete: the
\* undrain step returns true, and the reconcile does not fail at that step.
C11_Claimed ==
    \A n \in Nodes :
        /\ (~loc[n].should /\ loc[n].fetched = FetchedNotFound) =>
              /\ loc[n].inState
              /\ ~(pc[n] = "done" /\ result[n].err /\ result[n].line = 125)
        /\ (\E w \in NmWrites(n) : w.verb = "delete" /\ w.outcome = "notfound") =>
              /\ loc[n].inState
              /\ ~(pc[n] = "done" /\ result[n].err /\ result[n].line = 125)

\* C12: a reconcile that read a Node without the DPU label has returned at
\* line 97 with no error and no requeue and has issued no write at all,
\* whatever the node's schedulability and the derived objects that exist.
C12_UnlabeledNodeUntouched ==
    \A n \in Nodes :
        /\ (pc[n] = "done" /\ result[n].line = 97) =>
              /\ ops[n] = {}
              /\ ~result[n].err /\ result[n].requeueAfter = 0
              /\ loc[n].nodeGet = "found"
        /\ (/\ loc[n].nodeGet = "found" /\ ~envChanged[n]
            /\ Has(nodes, n) /\ dpuNodeLabel \notin Obj(nodes, n).labels) =>
              /\ pc[n] = "done" /\ result[n].line = 97
              /\ ops[n] = {}

C12_Witness ==
    \E n \in keys :
        /\ pc[n] = "done" /\ result[n].line = 97 /\ ~envChanged[n]
        /\ Has(nodes, n) /\ Obj(nodes, n).unschedulable
        /\ Has(deployments, DerivedName(n))
        /\ Has(pdbs, DerivedName(n)) /\ StoredBudget(n) = 1
        /\ Has(nms, NmName(mapping[n]))

\* C13: when the mapping file of a key is missing or names no host, its
\* reconcile never goes past the resolver, issues no write, and a reconcile
\* that returned from the resolver returned no error and no requeue.
C13_UnresolvedHostUntouched ==
    \A n \in Nodes :
        /\ (pc[n] = "done" /\ result[n].line = 105) =>
              /\ ops[n] = {}
              /\ ~result[n].err /\ result[n].requeueAfter = 0
              /\ mapping[n] \in {"", NoFile}
        /\ (n \in keys /\ mapping[n] \in {"", NoFile}) =>
              /\ ops[n] = {}
              /\ pc[n] \in {"idle", "ensureTenantClient", "setTenantClient",
                            "getNode", "resolve", "done"}
              /\ pc[n] = "done" => result[n].line \in {84, 92, 97, 105}

C13_Witness ==
    \E n \in keys :
        /\ pc[n] = "done" /\ result[n].line = 105
        /\ mapping[n] = ""
        /\ Has(nodes, n) /\ Obj(nodes, n).unschedulable /\ ~envChanged[n]

\* No remote client can be had: the single-cluster toggle is off, no tenant
\* REST config is published and the kubeconfig secret does not exist.
NoRemoteClient == ~singleCluster /\ ~restConfig /\ secret = "absent"

\* C14: with no remote client to be had, a reconcile never reads the Node
\* and issues no write; it returns at line 84 with no requeue, and with no
\* error unless the read of the secret itself failed.
C14_NoClientReturnsAtOnce ==
    \A n \in Nodes :
        NoRemoteClient =>
            /\ pc[n] \in {"idle", "ensureTenantClient", "setTenantClient", "done"}
            /\ ops[n] = {}
            /\ loc[n].nodeGet = ""
            /\ tenantClient = "nil"
            /\ pc[n] = "done" =>
                  /\ result[n].line = 84
                  /\ result[n].requeueAfter = 0
                  /\ ~loc[n].tcErr => ~result[n].err

C14_Witness ==
    \E n \in keys :
        /\ NoRemoteClient
        /\ pc[n] = "done" /\ ~result[n].err /\ result[n].line = 84
        /\ Has(nodes, n) /\ Obj(nodes, n).unschedulable
        /\ Has(deployments, DerivedName(n))

\* C15: a reconcile whose Get of the Node reported not-found has returned
\* with no error and no requeue and issued no write; one whose Get failed
\* otherwise has returned that error, also without any write.
C15_NodeGetErrors ==
    \A n \in Nodes :
        /\ loc[n].nodeGet = "notfound" =>
              /\ pc[n] = "done" /\ result[n].line = 92
              /\ ~result[n].err /\ result[n].requeueAfter = 0
              /\ ops[n] = {}
        /\ loc[n].nodeGet = "error" =>
              /\ pc[n] = "done" /\ result[n].line = 92
              /\ result[n].err /\ result[n].requeueAfter = 0
              /\ ops[n] = {}
        /\ (pc[n] = "done" /\ result[n].line = 92) =>
              loc[n].nodeGet \in {"notfound", "error"}

C15_Witness ==
    \E n \in keys :
        /\ loc[n].nodeGet = "notfound" /\ pc[n] = "done" /\ ~result[n].err
        /\ ~Has(nodes, n) /\ ~envChanged[n]
        /\ Has(deployments, DerivedName(n)) /\ Has(pdbs, DerivedName(n))

\* C16: a failed step ends the reconcile with the error and no requeue,
\* and no later step has run: after a failure of the Deployment step no
\* write on the budget or the record was issued, after a failure of
\* getOrCreatePDB none on the record and no update, and after a failure of
\* the drain or undrain step the budget was not updated, so (no other actor
\* interfering) it is stored as this reconcile read or created it.
C16_FailureShortCircuits ==
    \A n \in Nodes :
        /\ (\E w \in ops[n] : ~w.applied) => (pc[n] = "done" /\ result[n].err)
        /\ (pc[n] = "done" /\ result[n].err) =>
              /\ result[n].requeueAfter = 0
              /\ result[n].line \in {84, 92, 110, 119, 125, 130, 281, 302, 309}
              /\ result[n].line \in {84, 92} => ops[n] = {}
              /\ result[n].line = 110 =>
                    /\ PdbWrites(n) = {} /\ NmWrites(n) = {}
                    /\ \A w \in ops[n] : ~w.applied
              /\ result[n].line = 119 =>
                    /\ NmWrites(n) = {}
                    /\ \A w \in PdbWrites(n) : w.verb = "create" /\ ~w.applied
              /\ result[n].line = 125 =>
                    /\ \A w \in PdbWrites(n) :
                          w.verb = "create" /\ w.maxUnavailable = 0
                    /\ \A w \in NmWrites(n) : ~w.applied
                    /\ ~envChanged[n] =>
                          /\ Has(pdbs, DerivedName(n))
                          /\ Obj(pdbs, DerivedName(n)).spec = loc[n].pdbSpec

C16_Witness ==
    \E n \in keys :
        /\ pc[n] = "done" /\ result[n].err /\ result[n].line = 125
        /\ loc[n].should /\ ~envChanged[n]
        /\ \E w \in NmWrites(n) : w.verb = "create" /\ w.outcome = "error"
        /\ \E w \in PdbWrites(n) : w.verb = "create" /\ w.applied
        /\ StoredBudget(n) = 0

\* C17: a call of ensureBlockingDeploymentExists, or of getOrCreatePDB,
\* that follows a call for the same node that returned without error, no
\* other actor having written in between, never reaches the Create: it
\* issues no write, the object is stored, and getOrCreatePDB returns the
\* object as stored.
C17_SecondCallWritesNothing ==
    \A n \in Nodes :
        /\ pc[n] = "depCreate" => ensured[n].dep = "none"
        /\ pc[n] = "pdbCreate" => ensured[n].pdb = "none"
        /\ ensured[n].dep = "again" =>
              /\ Has(deployments, DerivedName(n))
              /\ \A w \in ops[n] : w.kind # "Deployment"
        /\ ensured[n].pdb = "again" =>
              /\ Has(pdbs, DerivedName(n))
              /\ \A w \in PdbWrites(n) : w.verb # "create"
              /\ HoldsPdb(n) =>
                    /\ ~loc[n].pdbAlias
                    /\ loc[n].pdbSpec = Obj(pdbs, DerivedName(n)).spec

C17_Witness ==
    \E n \in keys :
        /\ ensured[n].dep = "again" /\ ensured[n].pdb = "again"
        /\ pc[n] = "ensurePDBSpec" /\ ops[n] = {}
        /\ loc[n].pdbSpec.maxUnavailable = 1

\* C18: every stored Deployment and DisruptionBudget of a node N is named
\* "dpu-drain-blocker-" + N and every stored record of a host H is named
\* "dpu-tenant-" + H, names are unique within a kind, so there is at most
\* one of each per node or host; every write of a reconcile goes to these
\* names.
C18_OneObjectPerName ==
    /\ \A a, b \in deployments : a.name = b.name => a = b
    /\ \A a, b \in pdbs : a.name = b.name => a = b
    /\ \A a, b \in nms : a.name = b.name => a = b
    /\ \A d \in deployments : d.name = "dpu-drain-blocker-" \o d.owner
    /\ \A b \in pdbs : b.name = "dpu-drain-blocker-" \o b.owner
    /\ \A r \in nms : r.name = "dpu-tenant-" \o r.nodeName
    /\ \A n \in Nodes :
          /\ Cardinality({d \in deployments : d.owner = n}) <= 1
          /\ Cardinality({b \in pdbs : b.owner = n}) <= 1
          /\ \A w \in ops[n] :
                IF w.kind = "NodeMaintenance"
                  THEN w.name = "dpu-tenant-" \o mapping[n]
                  ELSE w.name = "dpu-drain-blocker-" \o n
    /\ \A h \in Hosts : Cardinality({r \in nms : r.nodeName = h}) <= 1

C18_Witness ==
    \E n \in keys :
        /\ RanToEnd(n) /\ ops[n] = {} /\ loc[n].should
        /\ ensured[n].dep = "again" /\ ensured[n].pdb = "again"
        /\ Cardinality(deployments) = 1 /\ Cardinality(pdbs) = 1
        /\ Cardinality(nms) = 1

\* Objects the reconciles of a key write to, by kind and name.
ObjectsOf(n) ==
    {<<"Deployment", DerivedName(n)>>, <<"PodDisruptionBudget", DerivedName(n)>>,
     <<"NodeMaintenance", NmName(mapping[n])>>}

\* C19: the reconciles of two distinct DPU nodes write to disjoint sets of
\* objects, whatever the mapping: no write of one node's reconcile goes to
\* an object of the other node, and in particular it never deletes the
\* record that stands for the drain request of the other, still cordoned,
\* node.
C19_Claimed ==
    \A n, m \in keys :
        n # m =>
            /\ ObjectsOf(n) \cap ObjectsOf(m) = {}
            /\ \A w \in ops[m] : <<w.kind, w.name>> \notin ObjectsOf(n)
            /\ \A w \in NmWrites(m) :
                  (/\ w.verb = "delete" /\ w.applied
                   /\ Has(nodes, n) /\ Obj(nodes, n).unschedulable) =>
                      w.name # NmName(mapping[n])

\* C20: the only writes a reconcile issues on the record are creates and
\* deletes; a Reconcile step leaves every record that exists before and
\* after it as it was, and a record it adds has an empty phase: the phase
\* changes only in steps of other actors.
C20_RecordOnlyCreatedOrDeleted ==
    [][/\ \A n \in Nodes : \A w \in NmWrites(n)' : w.verb \in {"create", "delete"}
       /\ pc' # pc =>
            /\ \A r \in nms : Has(nms', r.name) => r \in nms'
            /\ \A r \in nms' \ nms : ~Has(nms, r.name) /\ r.phase = ""
       /\ (\E r \in nms : Has(nms', r.name) /\ Obj(nms', r.name).phase # r.phase) =>
            pc' = pc]_vars

C20_Witness ==
    \E n \in keys :
        /\ \E w \in NmWrites(n) : w.verb = "create" /\ w.applied
        /\ Has(nms, NmName(loc[n].tenantNode))
        /\ Obj(nms, NmName(loc[n].tenantNode)).phase = MaintenanceSucceeded

\* C21: no Reconcile step changes or deletes a Node, changes or deletes a
\* stored Deployment, or deletes a DisruptionBudget or changes anything of
\* it but its spec; the only update a reconcile issues is on the
\* DisruptionBudget and the only delete on the NodeMaintenance record.
C21_InfraObjectsLeftAlone ==
    [][/\ \A n \in Nodes : \A w \in ops[n]' :
            /\ w.verb = "update" => w.kind = "PodDisruptionBudget"
            /\ w.verb = "delete" => w.kind = "NodeMaintenance"
       /\ pc' # pc =>
            /\ nodes' = nodes
            /\ \A d \in deployments : d \in deployments'
            /\ \A b \in pdbs : \E c \in pdbs' : c.name = b.name /\ c.owner = b.owner]_vars

C21_Witness ==
    \E n \in keys :
        /\ \E w \in PdbWrites(n) : w.verb = "update" /\ w.applied
        /\ Has(nodes, n) /\ Has(deployments, DerivedName(n))
        /\ Has(pdbs, DerivedName(n)) /\ Obj(pdbs, DerivedName(n)).owner = n

\* The spec Reconcile expects of the DisruptionBudget at line 128.
ExpectedSpec(n) ==
    PDBSpec(getExpectedMaxUnavailable(loc[n].inState /\ loc[n].should), DerivedName(n))

\* C22: when ensurePDBSpecIsAsExpected has run (no other actor having
\* written during the reconcile), an Update was issued if and only if the
\* stored spec, as the reconcile read or created it, differed from the
\* expected spec, and after an applied Update the stored spec is the
\* expected one.
C22_Claimed ==
    \A n \in keys :
        (pc[n] = "done" /\ result[n].line \in {130, 135, 138} /\ ~envChanged[n]) =>
            /\ (\E w \in PdbWrites(n) : w.verb = "update")
                  <=> loc[n].pdbSpec # ExpectedSpec(n)
            /\ (\E w \in PdbWrites(n) : w.verb = "update" /\ w.applied) =>
                  Obj(pdbs, DerivedName(n)).spec = ExpectedSpec(n)

\* C25: every maxUnavailable a reconcile writes, and every one stored, is
\* the integer 0 or 1, never above the replica count of the Deployment, and
\* a create always carries 0.
C25_BudgetIsZeroOrOne ==
    /\ \A n \in Nodes : \A w \in PdbWrites(n) :
          /\ w.maxUnavailable \in {0, 1}
          /\ w.maxUnavailable <= deploymentReplicaNumber
          /\ w.verb = "create" => w.maxUnavailable = 0
    /\ \A b \in pdbs : b.spec.maxUnavailable \in {0, 1}
    /\ \A n \in Nodes :
          (loc[n].pdbAlias /\ ~envChanged[n] /\ pc[n] # "done") => StoredBudget(n) = 0

C25_Witness ==
    \E n \in keys :
        /\ pc[n] = "done" /\ result[n].line = 135 /\ ~envChanged[n]
        /\ \E w \in PdbWrites(n) : w.verb = "create" /\ w.applied
        /\ StoredBudget(n) = 0

\* C29: a reconcile that follows one that ran to its end without error, no
\* other actor having written meanwhile, issues no create, update or delete.
C29_Claimed ==
    \A n \in keys : ensured[n].ran # "none" => ops[n] = {}

\* C30: GetOrCreateObject issues a Create only after its Get reported
\* not-found; a failed Create ends the reconcile with the error and no
\* object is returned; a Get that failed otherwise ends it with the error
\* too; on success the object returned is the stored one when the Get found
\* it and the object just created otherwise.
C30_GetOrCreateErrors ==
    \A n \in Nodes :
        /\ pc[n] = "drainCreate" => loc[n].fetched = FetchedNotFound
        /\ (\E w \in NmWrites(n) : w.verb = "create") => loc[n].fetched = FetchedNotFound
        /\ (pc[n] = "depCreate" /\ ~envChanged[n]) => ~Has(deployments, DerivedName(n))
        /\ (pc[n] = "pdbCreate" /\ ~envChanged[n]) => ~Has(pdbs, DerivedName(n))
        /\ \A w \in ops[n] :
              (w.verb = "create" /\ ~w.applied) =>
                  /\ pc[n] = "done" /\ result[n].err
                  /\ result[n].line = (CASE w.kind = "Deployment" -> 110
                                          [] w.kind = "PodDisruptionBudget" -> 119
                                          [] OTHER -> 125)
                  /\ w.kind = "PodDisruptionBudget" => loc[n].pdbSpec = NoSpec
                  /\ w.kind = "NodeMaintenance" => ~loc[n].inState
        /\ (pc[n] = "done" /\ result[n].line \in {110, 119, 125}) => result[n].err
        /\ (HoldsPdb(n) /\ ~envChanged[n]) =>
              /\ Has(pdbs, DerivedName(n))
              /\ loc[n].pdbSpec = Obj(pdbs, DerivedName(n)).spec
              /\ loc[n].pdbAlias <=>
                    \E w \in PdbWrites(n) : w.verb = "create" /\ w.applied
        /\ (/\ pc[n] = "ensurePDBSpec" /\ loc[n].should /\ ~envChanged[n]
            /\ loc[n].fetched \in Phases) =>
              /\ Has(nms, NmName(loc[n].tenantNode))
              /\ Obj(nms, NmName(loc[n].tenantNode)).phase = loc[n].fetched

C30_Witness ==
    \E n \in keys :
        /\ pc[n] = "done" /\ result[n].err /\ result[n].line = 119
        /\ \E w \in PdbWrites(n) : w.verb = "create" /\ w.outcome = "error"
        /\ loc[n].pdbSpec = NoSpec /\ ~Has(pdbs, DerivedName(n))

\* C23: if from some point on the node dpu-1 stays unschedulable, its
\* record stays in phase Succeeded and no Reconcile returns an error, then
\* from some point on the stored budget is 1 and the key has left the
\* queue (no requeue is pending).
C23_DrainCompletes ==
    (<>[](/\ ~result["dpu-1"].err
          /\ Obj(nodes, "dpu-1").unschedulable
          /\ Has(nms, NmName("worker-1"))
          /\ Obj(nms, NmName("worker-1")).phase = MaintenanceSucceeded))
      => <>[](/\ Has(pdbs, DerivedName("dpu-1"))
              /\ StoredBudget("dpu-1") = 1
              /\ pc["dpu-1"] = "settled")

C23_Witness ==
    /\ pc["dpu-1"] = "settled" /\ result["dpu-1"].requeueAfter = 0
    /\ Obj(nodes, "dpu-1").unschedulable
    /\ Has(nms, NmName("worker-1"))
    /\ Obj(nms, NmName("worker-1")).phase = MaintenanceSucceeded
    /\ Has(pdbs, DerivedName("dpu-1")) /\ StoredBudget("dpu-1") = 1

\* C24: if from some point on the node dpu-1 stays schedulable and no
\* Reconcile returns an error, then from some point on its record is
\* absent, the stored budget is 0, the Deployment is present and the key
\* has left the queue: the state the three objects had before the drain.
C24_UndrainCompletes ==
    (<>[](~result["dpu-1"].err /\ ~Obj(nodes, "dpu-1").unschedulable))
      => <>[](/\ ~Has(nms, NmName("worker-1"))
              /\ Has(pdbs, DerivedName("dpu-1"))
              /\ StoredBudget("dpu-1") = 0
              /\ Has(deployments, DerivedName("dpu-1"))
              /\ pc["dpu-1"] = "settled")

C24_Witness ==
    /\ pc["dpu-1"] = "done" /\ ~result["dpu-1"].err
    /\ ~Obj(nodes, "dpu-1").unschedulable
    /\ loc["dpu-1"].fetched = MaintenanceSucceeded
    /\ loc["dpu-1"].pdbSpec.maxUnavailable = 1
    /\ \E w \in NmWrites("dpu-1") : w.verb = "delete" /\ w.applied
    /\ \E w \in PdbWrites("dpu-1") : w.verb = "update" /\ w.applied
    /\ ~Has(nms, NmName("worker-1"))
    /\ StoredBudget("dpu-1") = 0
    /\ Has(deployments, DerivedName("dpu-1"))

DrainPcs == {"drainGet", "drainCreate", "undrainGet", "undrainDelete"}

\* C26: with the single-cluster toggle on, ensureTenantClient yields the
\* local client without an error whatever the state of the secret and of
\* the published REST config, and the drain and undrain steps work through
\* the local client; with the toggle off and no handle stored, it yields no
\* client or a tenant client, a tenant client only when a REST config is
\* published or the secret holds a valid kubeconfig, and the published REST
\* config, when there is one, decides alone.
C26_ToggleDecidesClient ==
    [][\A n \in keys :
         /\ singleCluster /\ pc[n] \in DrainPcs => tenantClient = "local"
         /\ pc[n] = "ensureTenantClient" /\ pc'[n] = "setTenantClient" =>
              IF singleCluster
                 THEN loc'[n].tc = "local" /\ ~loc'[n].tcErr
                 ELSE tenantClient = "nil" =>
                        /\ loc'[n].tc \in {"nil", "tenant"}
                        /\ loc'[n].tc = "tenant" => restConfig \/ secret = "valid"
                        /\ restConfig => loc'[n].tc = "tenant" \/ loc'[n].tcErr
                        /\ ~restConfig /\ secret \in {"absent", "noConfigKey"} =>
                              loc'[n].tc = "nil"
      ]_vars

C26_Witness ==
    /\ singleCluster /\ secret = "valid"
    /\ pc["dpu-1"] = "done" /\ ~envChanged["dpu-1"]
    /\ tenantClient = "local"
    /\ \E w \in NmWrites("dpu-1") : w.verb = "create" /\ w.applied

\* The reconcile of key a has stored a non-nil handle into r.tenantClient.
HasStoredClient(a) ==
    /\ pc[a] \notin {"idle", "ensureTenantClient", "setTenantClient"}
    /\ loc[a].tc # "nil"

\* C27 (as claimed): once the reconcile of one key has stored a non-nil
\* tenant client, a call of ensureTenantClient made afterwards by the
\* reconcile of another key yields that same handle, without an error.
C27_Claimed ==
    [][\A a, b \in keys :
         /\ a # b
         /\ HasStoredClient(a)
         /\ pc[b] = "ensureTenantClient" /\ pc'[b] = "setTenantClient"
         => loc'[b].tc = loc[a].tc /\ ~loc'[b].tcErr
      ]_vars

\* C28 (as claimed): no reconcile dereferences a nil r.tenantClient in its
\* drain or undrain step.
C28_Claimed == \A n \in keys : pc[n] = "done" => ~result[n].panic

\* C31 (as claimed): with the tenant-kubeconfig secret present but without
\* a "config" key, a Reconcile that stops for want of a tenant client
\* returns an error.
C31_Claimed ==
    \A n \in keys :
        /\ ~singleCluster /\ ~restConfig /\ secret = "noConfigKey"
        /\ pc[n] = "done" /\ result[n].line = 84
        => result[n].err

\* C32: while a tenant REST config is published, getTenantRestClientConfig
\* yields it without an error whatever the state of the secret, and a
\* tenant client built by ensureTenantClient comes from it (or client.New
\* fails); while none is published the outcome is that of the secret: a
\* tenant client only from a valid kubeconfig, no client and no error when
\* the secret is absent.
C32_PublishedConfigWins ==
    /\ restConfig => getTenantRestClientConfig = {[cfg |-> TRUE, err |-> FALSE]}
    /\ \A n \in keys :
         /\ pc[n] = "setTenantClient" /\ ~envChanged[n]
         /\ ~singleCluster /\ tenantClient = "nil"
         => IF restConfig
               THEN loc[n].tc = "tenant" \/ loc[n].tcErr
               ELSE /\ loc[n].tc = "tenant" => secret = "valid"
                    /\ secret = "invalid" => loc[n].tcErr
                    /\ secret = "absent" /\ ~loc[n].tcErr => loc[n].tc = "nil"

C32_Witness ==
    /\ ~singleCluster /\ restConfig /\ secret = "invalid"
    /\ pc["dpu-1"] = "setTenantClient" /\ ~envChanged["dpu-1"]
    /\ tenantClient = "nil"
    /\ loc["dpu-1"].tc = "tenant" /\ ~loc["dpu-1"].tcErr

\* The step of Reconcile that makes a stop channel and calls
\* startTenantSyncer, and the step that closes channel i.
StartsSyncer == Len(chans') = Len(chans) + 1
Closes(i) == i \in DOMAIN chans /\ chans[i] = "open" /\ chans'[i] = "closed"

\* C33: whatever the number of DpuClusterConfig objects from one Reconcile
\* to the next, startTenantSyncer is called only while no syncer is
\* recorded, with a channel made for the call, and a syncer it records is
\* a new one; a channel is closed only while a syncer is recorded, it is
\* that syncer's channel and it was open, and with the close the record is
\* cleared; no close ever panics; a channel once closed stays closed.
C33_SyncerStartedAndStoppedOnce ==
    [][/\ StartsSyncer =>
            /\ syncer = 0
            /\ stopCh' = Len(chans') /\ chans'[stopCh'] = "open"
            /\ syncer' # 0 => syncer' = stopCh' /\ syncer' \notin {p[1] : p \in started}
       /\ \A i \in DOMAIN chans :
            /\ Closes(i) => syncer # 0 /\ i = stopCh /\ syncer' = 0
            /\ chans[i] = "closed" => chans'[i] = "closed"
       /\ ~(cresult'.panic /\ cresult'.line = 589)
       /\ syncer' # 0 => stopCh' # 0 /\ chans'[stopCh'] = "open"
      ]_vars

C33_Witness ==
    /\ chans = <<"closed", "open">>
    /\ syncer = 2 /\ stopCh = 2
    /\ started = {<<1, 1>>, <<2, 2>>}
    /\ Cardinality(cfgList) = 1

\* C34: with the pool name "master" or "worker" the step of Reconcile that
\* calls syncMachineConfigObjs ends the reconcile at line 549 with an
\* error, having sent no create or update and left every
\* MachineConfigPool and MachineConfig as it was, with McpReady set to
\* false in the status; the syncer is not started and the DaemonSet is not
\* synced.
C34_ReservedPoolRejected ==
    [][(cpc = "pool" /\ cpc' \notin {"pool", "crashed"}
           /\ cloc.cfg.poolName \in {"master", "worker"}) =>
         /\ cpc' = "done" /\ cresult'.err /\ cresult'.line = 549
         /\ cops' = {} /\ mcps' = mcps /\ mcs' = mcs
         /\ cloc'.mcpReady = "False"
         /\ ~StartsSyncer /\ syncer' = syncer /\ goroutines' = goroutines
         /\ cloc'.used = 0 /\ ~cloc'.synced
         /\ ovn_master_discovery_timeout' = ovn_master_discovery_timeout
      ]_vars

C34_Witness ==
    /\ cpc = "done"
    /\ cloc.cfg.poolName = "worker" /\ cloc.cfg.kubeConfigFile # ""
    /\ cresult.err /\ cresult.line = 549
    /\ cloc.mcpReady = "False"
    /\ cops = {}

\* The step of syncOvnkubeDaemonSet in which getTenantClusterMasterIPs ran
\* and returned.
Discovered == cpc = "daemonset" /\ cloc.used = 0 /\ cloc'.used # 0 /\ ~cresult'.panic

\* C35: the discovery timeout is 250, 130 or 10 and so positive in every
\* state; no step increases it; a step that changes it is a discovery that
\* timed out and returned no error, and it takes 120 off with a positive
\* rest; such a discovery takes the 120 off whenever the rest is
\* positive and leaves 10 at 10; a discovery that did not time out or
\* that returned an error leaves it as it was.
C35_TimeoutBacksOffAndStaysPositive ==
    [][/\ ovn_master_discovery_timeout \in {250, 130, 10}
       /\ ovn_master_discovery_timeout' \in {250, 130, 10}
       /\ ovn_master_discovery_timeout' > 0
       /\ ovn_master_discovery_timeout' <= ovn_master_discovery_timeout
       /\ ovn_master_discovery_timeout' # ovn_master_discovery_timeout =>
            /\ cpc = "daemonset" /\ cloc'.timedOut /\ cloc'.synced
            /\ cloc'.used = ovn_master_discovery_timeout
            /\ ovn_master_discovery_timeout' = ovn_master_discovery_timeout - 120
       /\ Discovered =>
            /\ cloc'.used = ovn_master_discovery_timeout
            /\ (~cloc'.timedOut \/ ~cloc'.synced) =>
                 ovn_master_discovery_timeout' = ovn_master_discovery_timeout
            /\ (cloc'.timedOut /\ cloc'.synced) =>
                 ovn_master_discovery_timeout' =
                    IF ovn_master_discovery_timeout > 120
                       THEN ovn_master_discovery_timeout - 120
                       ELSE ovn_master_discovery_timeout
      ]_vars

C35_Witness ==
    /\ ovn_master_discovery_timeout = 10
    /\ cloc.used = 10 /\ cloc.timedOut /\ cloc.synced
    /\ cpc = "done"

\* C36: when getTenantClusterMasterIPs has returned without error it has
\* returned at least one address, and syncOvnkubeDaemonSet does not panic
\* on masterIPs[0] at line 687.
C36_Claimed ==
    /\ (cloc.used # 0 /\ cloc.synced) => cloc.masterIPs > 0
    /\ ~(cresult.panic /\ cresult.line = 687)

\* The step in which processNextWorkItem of the queue ends.
QueueItemDone == qWorker # "" /\ qWorker' = ""
InQueue(k, q) == \E i \in DOMAIN q : q[i] = k

\* C37: when the processing of a key ends, the key is added again through
\* the rate limiter, which counts one more requeue of it, exactly if
\* process returned requeue, whatever error came with it; otherwise the
\* count of the key is back at 0 and the step adds the key nowhere: no
\* delayed add is pending that was not pending before, and the key is in
\* the queue again only if it was enqueued while it was processed.
C37_RequeueDecidesRetry ==
    [][QueueItemDone =>
         /\ qLast'.key = qWorker
         /\ qLast'.requeue <=> qFailures'[qWorker] = qFailures[qWorker] + 1
         /\ qLast'.requeue => qWorker \in qWaiting'
         /\ ~qLast'.requeue =>
              /\ qFailures'[qWorker] = 0
              /\ qWaiting' = qWaiting /\ qDirty' = qDirty
              /\ InQueue(qWorker, qQueue') <=> qWorker \in qDirty
      ]_vars

C37_Witness ==
    /\ qLast.err /\ ~qLast.requeue /\ qLast.n >= 2
    /\ qFailures[qLast.key] = 0
    /\ qLast.key \notin qWaiting \cup qDirty \cup qProcessing
    /\ ~InQueue(qLast.key, qQueue)

\* what the transform was given, by resource type
IsCopied(kind, name) ==
    \/ kind = "Secret" /\ name = "ovn-cert"
    \/ kind = "ConfigMap" /\ name \in {"ovn-ca", "ovnkube-config"}

\* C39: once the transform has run on an object, it has returned nil and
\* nothing was sent to the federator unless the object is the secret
\* ovn-cert or one of the config maps ovn-ca and ovnkube-config; such an
\* object is sent whenever its conversion and SetControllerReference
\* succeed; what is sent keeps the name, is in the local namespace and has
\* as only owner reference the controller reference to the
\* DpuClusterConfig; and requeue is false.
C39_OnlyOvnObjectsCopied ==
    tOut # NoOut =>
      /\ ~tOut.requeue
      /\ ~IsCopied(tIn.kind, tIn.obj.name) => tOut.obj = NilObj /\ tOut.sent = "nothing"
      /\ (IsCopied(tIn.kind, tIn.obj.name) /\ tIn.convertOk /\ tIn.setRefOk) =>
            tOut.sent # "nothing"
      /\ tOut.sent # "nothing" =>
            /\ tOut.obj.name = tIn.obj.name
            /\ tOut.obj.namespace = LocalNamespace
            /\ tOut.obj.owners = {ControllerRef}
            /\ Cardinality(tOut.obj.owners) = 1

C39_Witness ==
    /\ tIn.kind = "ConfigMap" /\ tIn.obj.name = "ovnkube-config"
    /\ tIn.obj.namespace = TenantNamespace /\ Cardinality(tIn.obj.owners) = 2
    /\ tOut.sent = "Distribute"
    /\ tOut.obj.namespace = LocalNamespace /\ tOut.obj.owners = {ControllerRef}

\* The step in which handleDeleted ran for a key whose deleted object was
\* in r.deleted.
HandlesDeleted == QueueItemDone /\ qWorker \notin informerStore /\ qWorker \in deleted

\* C38: when handleDeleted called Federator.Delete for a deleted object
\* and the call failed with an error other than not-found, the object is
\* in r.deleted after the step, process returned requeue with the error,
\* and the key is added again through the rate limiter; when the call
\* deleted the local copy or answered not-found, the object is no longer
\* in r.deleted, no local copy is left, process returned neither requeue
\* nor error and the key was forgotten.
C38_FailedDeleteIsKept ==
    [][HandlesDeleted =>
         /\ qLast'.path = "deleteFailed" =>
              /\ qWorker \in deleted'
              /\ qLast'.requeue /\ qLast'.err
              /\ qWorker \in qWaiting'
              /\ qFailures'[qWorker] = qFailures[qWorker] + 1
              /\ localObjs' = localObjs
         /\ qLast'.path \in {"deleted", "deleteNotFound"} =>
              /\ qWorker \notin deleted'
              /\ qWorker \notin localObjs'
              /\ ~qLast'.requeue /\ ~qLast'.err
              /\ qFailures'[qWorker] = 0
              /\ qWaiting' = qWaiting
         /\ qLast'.err => qWorker \in deleted'
      ]_vars

C38_Witness ==
    /\ qLast.path = "deleteFailed"
    /\ qLast.key \notin informerStore
    /\ qLast.key \in deleted
    /\ qLast.key \in localObjs
    /\ qLast.key \in qWaiting

====
